---- MODULE Spec2Model ----
(***************************************************************************)
(* Job orchestration core of paper-forge: the Redis job record store       *)
(* (internal/jobs store), the asynq worker handler (internal/jobs          *)
(* manager), the PDF service's prepare / RunJob / execute steps and the    *)
(* HTTP handlers that dispatch a prepared job inline or to the queue.      *)
(***************************************************************************)
EXTENDS Integers, Sequences, FiniteSets, TLC

(***************************************************************************)
(* Bounds of the model.                                                    *)
(***************************************************************************)
\* store round trips that may fail for a reason other than a cancelled context
MaxStoreFailures == 1
\* process restarts
MaxRestarts == 1
\* spans of an extract-range job
MaxRanges == 2
\* concurrent callers of the store's update primitive (SpecStore)
NumCallers == 2
\* files of a manifest given to shouldProcessAsync (SpecAsync)
MaxFiles == 2
\* characters of a range expression given to parsePageRanges (SpecRanges)
MaxExprLen == 5
\* entries of an order array given to PrepareMergeJob (SpecOrder)
MaxOrderLen == 3
\* the store's TTL in clock ticks, the last tick of the clock, Upsert calls (SpecUpsert)
TTLTicks == 2
MaxClock == 5
MaxUpserts == 2
\* writes of one job's record (SpecRecordTimes)
MaxRecordWrites == 4
MaxDiscards == 2
MaxCleanups == 2
MaxLogins == 6
MaxLoginClock == 13

\* auth/manager.go, in minutes
loginWindow == 15
lockDuration == 10
maxLoginAttempts == 5

(***************************************************************************)
(* Program constants.                                                      *)
(***************************************************************************)
\* asynq.MaxRetry(1) given to EnqueueContext
MaxRetry == 1
\* the most files one merge request may upload
maxUploadFiles == 20

Jobs == {"j1"}
Callers == 1..NumCallers

StatusQueued == "queued"
StatusRunning == "running"
StatusSucceeded == "done"
StatusFailed == "error"
Terminal == {StatusSucceeded, StatusFailed}

VARIABLES
    store,        \* Redis: jobID -> Record, or NoRecord when the key is absent
    storeVer,     \* number of writes the key has seen (what a WATCH would observe)
    storeFails,   \* store round trips that have failed so far
    calls,        \* SpecStore: the concurrent callers of UpdateProgress / MarkDone / MarkFailed
    staleCommit,  \* a write has committed over a record modified since it was read
    opts,         \* HandlerOptions of the HTTP handlers
    http,         \* jobID -> position of the HTTP handler that prepared the job
    ws,           \* jobID -> the workspace directory on disk
    queue,        \* jobID -> the asynq task of the job
    ex,           \* jobID -> the RunJob / handlePDFTask invocation in flight
    ctxCancelled, \* jobID -> the context of the invocation in flight is cancelled
    timers,       \* jobID -> pending time.AfterFunc cleanups of this process
    restarts,     \* process restarts so far
    elapsed,      \* jobID -> JobExpireMinutes have passed since the terminal state
    execCount,    \* jobID -> times RunJob handed the job to an executor
    cancelledExec,\* jobID -> a task context was cancelled while its execute was in flight
    dl,           \* jobID -> what the last OpenResultFile returned
    hist,         \* jobID -> what the job's handlers have called and seen so far
    parse,        \* SpecRanges: a parsePageRanges call, its arguments and its result
    merge,        \* SpecOrder: a PrepareMergeJob call, its arguments and its result
    kv,           \* SpecUpsert: the clock, the Redis key of one job and the last Upsert
    prep,         \* SpecManifest: a prepare step by step, and the lookups made afterwards
    auth,         \* SpecLogin: one client IP's attempts, the clock, the logins in flight
    reorder,      \* SpecReorder: a PrepareReorderJob call, its arguments and its result
    sched         \* SpecEnqueue: an Enqueue step by step, the worker and the key's expiry

storeVars == <<store, storeVer, storeFails>>
harnessVars == <<calls, staleCommit>>
pureVars == <<parse, merge, kv, prep, auth, reorder, sched>>
flowVars == <<opts, http, ws, queue, ex, ctxCancelled, timers, restarts, elapsed,
              execCount, cancelledExec, dl, hist, parse, merge, kv, prep, auth, reorder, sched>>
vars == <<store, storeVer, storeFails, calls, staleCommit, opts, http, ws, queue, ex,
          ctxCancelled, timers, restarts, elapsed, execCount, cancelledExec, dl, hist,
          parse, merge, kv, prep, auth, reorder, sched>>

(***************************************************************************)
(* Record and the store's write paths.                                     *)
(***************************************************************************)
NoRecord == [status |-> "absent", percent |-> 0, stage |-> "", url |-> "", err |-> ""]

Record(status, percent, stage) ==
    [status |-> status, percent |-> percent, stage |-> stage, url |-> "", err |-> ""]

\* Store.UpdateProgress: record.Progress = progress
UpdateProgressMutate(rec, percent, stage) ==
    [rec EXCEPT !.percent = percent, !.stage = stage]

\* a MarkDone that leaves the progress as it was
MarkDoneKeepsProgress(rec, url) ==
    [rec EXCEPT !.status = StatusSucceeded, !.url = url, !.err = ""]

\* Store.MarkDone
MarkDoneMutate(rec, url) ==
    [rec EXCEPT !.status = StatusSucceeded, !.percent = 100, !.stage = "completed",
                !.url = url, !.err = ""]

\* Store.MarkFailed (errInfo is never nil at the call sites)
MarkFailedMutate(rec, code) ==
    [rec EXCEPT !.status = StatusFailed, !.err = code]

\* the mutation a caller applies
Mutate(rec, op) ==
    CASE op.kind = "progress" -> UpdateProgressMutate(rec, op.percent, op.stage)
      [] op.kind = "done"     -> MarkDoneMutate(rec, "/download")
      [] op.kind = "failed"   -> MarkFailedMutate(rec, op.code)

\* tx.Exec of a TxPipeline that was never WATCHed: MULTI/SET/EXEC always commits
TxCommits(readVer, curVer) == TRUE

(***************************************************************************)
(* Workspace, manifest and dispatcher.                                     *)
(***************************************************************************)
Ops == {"merge", "reorder", "split", "optimize"}

NoManifest == [op |-> "", files |-> <<>>, n |-> 0]

\* manifest.json exists but does not hold the whole document
PartialManifest == [op |-> "partial", files |-> <<>>, n |-> 0]

NoWorkspace == [dir |-> FALSE, inDir |-> FALSE, outDir |-> FALSE, manifest |-> NoManifest,
                output |-> "none", meta |-> FALSE]

\* createWorkspace, both MkdirAll calls succeeded
NewWorkspace == [NoWorkspace EXCEPT !.dir = TRUE, !.inDir = TRUE, !.outDir = TRUE]

\* a removeDir that leaves the directory in place
removeDirSkipped(w) == w

\* removeDir: os.RemoveAll of the job directory
removeDir(w) == NoWorkspace

\* loadManifest: os.ReadFile, then json.Unmarshal
loadManifest(w) ==
    IF ~w.dir \/ w.manifest = NoManifest THEN "ErrNotExist"
    ELSE IF w.manifest = PartialManifest THEN "parse_error"
    ELSE "nil"

\* a removal that fails on a path that does not exist, as os.Remove does
removeAllErrOnMissing(w) == IF w.dir THEN "nil" ELSE "ErrNotExist"

\* the error of removeDir: os.RemoveAll returns nil also for a path that does not exist
removeAllErr(w) == "nil"

\* a DiscardJob that leaves the directory in place
DiscardJobSkipped(w) == w

\* Service.DiscardJob: removeDir of workspaceFor(jobID).dir
DiscardJob(w) == removeDir(w)

\* a Cleanup that leaves the directory in place
CleanupSkipped(w) == w

\* Result.Cleanup, run by the handler's defer
Cleanup(w) == removeDir(w)

FileKinds == {[size |-> 1, pages |-> 1], [size |-> 3, pages |-> 3]}

InputFiles(op) ==
    IF op = "merge"
    THEN {<<f>> : f \in FileKinds} \cup {<<f, g>> : f \in FileKinds, g \in {[size |-> 1, pages |-> 1]}}
    ELSE {<<f>> : f \in FileKinds}

RangeCounts(op) == IF op = "split" THEN 1..MaxRanges ELSE {0}

PrepareOutcomes(op) ==
    {"ok", "failed", "mkdir_out_failed"} \cup (IF op = "merge" THEN {"cancelled"} ELSE {})

RECURSIVE SumSize(_)
SumSize(fs) == IF fs = <<>> THEN 0 ELSE Head(fs).size + SumSize(Tail(fs))

RECURSIVE SumPages(_)
SumPages(fs) == IF fs = <<>> THEN 0 ELSE Head(fs).pages + SumPages(Tail(fs))

\* a dispatcher that routes async only when both thresholds are exceeded
shouldProcessAsyncBoth(m, o) ==
    IF m = NoManifest \/ ~o.Scheduler
    THEN FALSE
    ELSE /\ (o.AsyncThresholdBytes > 0 /\ SumSize(m.files) > o.AsyncThresholdBytes)
         /\ (o.AsyncThresholdPages > 0 /\ SumPages(m.files) > o.AsyncThresholdPages)

shouldProcessAsync(m, o) ==
    IF m = NoManifest \/ ~o.Scheduler
    THEN FALSE
    ELSE \/ (o.AsyncThresholdBytes > 0 /\ SumSize(m.files) > o.AsyncThresholdBytes)
         \/ (o.AsyncThresholdPages > 0 /\ SumPages(m.files) > o.AsyncThresholdPages)

\* a dispatch that takes the other branch
RouteInverted(m, o) == IF shouldProcessAsync(m, o) THEN "sync" ELSE "async"

\* the handler's branch on shouldProcessAsync(manifest, opts)
Route(m, o) == IF shouldProcessAsync(m, o) THEN "async" ELSE "sync"

OptsChoices == [Scheduler : BOOLEAN, AsyncThresholdBytes : {2}, AsyncThresholdPages : {0, 2}]

(***************************************************************************)
(* The state no request has touched yet.                                   *)
(***************************************************************************)
IdleCall == [pc |-> "idle", op |-> [kind |-> "none"], rec |-> NoRecord, ver |-> 0, result |-> "none"]

IdleEx == [mode |-> "none", pc |-> "idle", i |-> 0, op |-> [kind |-> "none"],
           rec |-> NoRecord, ver |-> 0, runErr |-> "", ret |-> "", storeErr |-> FALSE,
           m |-> NoManifest, reports |-> <<>>]

NoTask == [state |-> "none", deliveries |-> 0]

\* no parsePageRanges call
NoParse == [pc |-> "none", expr |-> <<>>, pageCount |-> 0,
            result |-> [ok |-> FALSE, code |-> "", ranges |-> <<>>],
            split |-> [err |-> "none", kind |-> "", parts |-> <<>>]]

\* a Record with its timestamps; a zero time.Time is 0
TimedRecord(status, percent, createdAt, updatedAt, expiresAt) ==
    [status |-> status, percent |-> percent, createdAt |-> createdAt, updatedAt |-> updatedAt,
     expiresAt |-> expiresAt]

NoTimedRecord == TimedRecord("absent", 0, 0, 0, 0)

\* the clock at 1, no key, no Upsert yet
NoKv == [now |-> 1, rec |-> NoTimedRecord, deadline |-> 0, lastIn |-> NoTimedRecord,
         lastAt |-> 0, writes |-> 0, queuedAt |-> 0, updatedBack |-> FALSE]

\* no prepare under way, nothing looked up
NoPrep == [pc |-> "none", run |-> "none", runSeen |-> NoWorkspace,
           open |-> "none", openSeen |-> NoWorkspace, status |-> 0,
           discards |-> 0, discardSeen |-> NoWorkspace, discardErr |-> "none",
           cleanups |-> 0, cleanupOnce |-> FALSE, removals |-> 0]

\* m.attempts has no entry for the IP; a zero time.Time is 0
NoAttempts == [present |-> FALSE, count |-> 0, firstAttempt |-> 0, lockedUntil |-> 0]

\* no login request made
NoAuth == [clock |-> 0, attempts |-> NoAttempts, req |-> [c \in Callers |-> "none"],
           logins |-> 0, failedAt |-> <<>>, verifiedLocked |-> FALSE,
           rejected |-> 0, last |-> "none"]

\* no Enqueue call
NoSched == [pc |-> "none", step |-> 0, expired |-> FALSE, overwrote |-> FALSE,
            startedBare |-> FALSE]

\* no PrepareReorderJob call
NoReorder == [pc |-> "none", pages |-> 0, order |-> <<>>, validated |-> "none", err |-> ""]

\* no PrepareMergeJob call
NoMerge == [pc |-> "none", nFiles |-> 0, order |-> <<>>, err |-> "", created |-> FALSE,
            files |-> <<>>, execErr |-> "none", kind |-> "",
            meta |-> [TotalPages |-> 0, Sources |-> <<>>]]

\* nothing prepared, nothing called
NoHist == [prepare |-> "", manifest |-> NoManifest, async |-> "unset", Schedule |-> 0,
           DiscardJob |-> 0, RunJob |-> 0, execErr |-> "", missing |-> FALSE]

FlowIdle ==
    /\ http = [j \in Jobs |-> "idle"]
    /\ ws = [j \in Jobs |-> NoWorkspace]
    /\ queue = [j \in Jobs |-> NoTask]
    /\ ex = [j \in Jobs |-> IdleEx]
    /\ ctxCancelled = [j \in Jobs |-> FALSE]
    /\ timers = [j \in Jobs |-> 0]
    /\ restarts = 0
    /\ elapsed = [j \in Jobs |-> FALSE]
    /\ execCount = [j \in Jobs |-> 0]
    /\ cancelledExec = [j \in Jobs |-> FALSE]
    /\ dl = [j \in Jobs |-> "none"]
    /\ hist = [j \in Jobs |-> NoHist]
    /\ parse = NoParse
    /\ merge = NoMerge
    /\ kv = NoKv
    /\ prep = NoPrep
    /\ auth = NoAuth
    /\ reorder = NoReorder
    /\ sched = NoSched

(***************************************************************************)
(* SpecStore: concurrent callers of Store.updatePartial on one record.     *)
(***************************************************************************)
CallOps ==
    [kind : {"progress"}, percent : {40, 80}, stage : {"process"}]
      \cup {[kind |-> "done"], [kind |-> "failed", code |-> "INTERNAL_ERROR"]}

\* updatePartial, s.rdb.Get: the read of the cycle
CallRead(c, j) ==
    /\ calls[c].pc = "read"
    /\ IF store[j] = NoRecord
       THEN calls' = [calls EXCEPT ![c].pc = "returned", ![c].result = "not_found"]
       ELSE calls' = [calls EXCEPT ![c].pc = "write", ![c].rec = store[j], ![c].ver = storeVer[j]]
    /\ UNCHANGED <<store, storeVer, storeFails, staleCommit>>
    /\ UNCHANGED flowVars

\* updatePartial, mutate + tx.Set + tx.Exec: the write of the cycle
CallWrite(c, j) ==
    /\ calls[c].pc = "write"
    /\ IF TxCommits(calls[c].ver, storeVer[j])
       THEN /\ store' = [store EXCEPT ![j] = Mutate(calls[c].rec, calls[c].op)]
            /\ storeVer' = [storeVer EXCEPT ![j] = @ + 1]
            /\ staleCommit' = (staleCommit \/ calls[c].ver # storeVer[j])
            /\ calls' = [calls EXCEPT ![c].pc = "returned", ![c].result = "ok"]
       ELSE /\ calls' = [calls EXCEPT ![c].pc = "read"]
            /\ UNCHANGED <<store, storeVer, staleCommit>>
    /\ UNCHANGED storeFails
    /\ UNCHANGED flowVars

InitStore ==
    /\ store = [j \in Jobs |-> Record(StatusRunning, 0, "load")]
    /\ storeVer = [j \in Jobs |-> 1]
    /\ storeFails = 0
    /\ staleCommit = FALSE
    /\ calls \in [Callers -> {[IdleCall EXCEPT !.pc = "read", !.op = o] : o \in CallOps}]
    /\ opts \in OptsChoices
    /\ FlowIdle

NextStore == \E c \in Callers, j \in Jobs : CallRead(c, j) \/ CallWrite(c, j)

SpecStore == InitStore /\ [][NextStore]_vars

(***************************************************************************)
(* SpecProgress: callers of Manager.UpdateProgress, which hands any int to *)
(* Store.UpdateProgress, next to MarkDone and MarkFailed.                  *)
(***************************************************************************)
ProgressInputs == {0 - 1, 0, 50, 100, 101}

\* Manager.UpdateProgress(ctx, jobID, percent, stage): percent is stored as given
ManagerOps ==
    [kind : {"progress"}, percent : ProgressInputs, stage : {"process"}]
      \cup {[kind |-> "done"], [kind |-> "failed", code |-> "INTERNAL_ERROR"]}

InitProgress ==
    /\ store = [j \in Jobs |-> Record(StatusRunning, 0, "load")]
    /\ storeVer = [j \in Jobs |-> 1]
    /\ storeFails = 0
    /\ staleCommit = FALSE
    /\ calls \in [Callers -> {[IdleCall EXCEPT !.pc = "read", !.op = o] : o \in ManagerOps}]
    /\ opts \in OptsChoices
    /\ FlowIdle

NextProgress == \E c \in Callers, j \in Jobs : CallRead(c, j) \/ CallWrite(c, j)

SpecProgress == InitProgress /\ [][NextProgress]_vars

(***************************************************************************)
(* SpecStoreTTL: the same callers on a record that may be absent and whose *)
(* key Redis may expire at any time (the TTL given to Set).                *)
(***************************************************************************)
\* Redis drops the key when its TTL runs out
RecordExpires(j) ==
    /\ store[j] # NoRecord
    /\ store' = [store EXCEPT ![j] = NoRecord]
    /\ storeVer' = [storeVer EXCEPT ![j] = @ + 1]
    /\ UNCHANGED <<storeFails, harnessVars>>
    /\ UNCHANGED flowVars

InitStoreTTL ==
    /\ store \in [Jobs -> {NoRecord, Record(StatusRunning, 0, "load")}]
    /\ storeVer = [j \in Jobs |-> 1]
    /\ storeFails = 0
    /\ staleCommit = FALSE
    /\ calls \in [Callers -> {[IdleCall EXCEPT !.pc = "read", !.op = o] : o \in CallOps}]
    /\ opts \in OptsChoices
    /\ FlowIdle

NextStoreTTL ==
    \E j \in Jobs :
       \/ \E c \in Callers : CallRead(c, j) \/ CallWrite(c, j)
       \/ RecordExpires(j)

SpecStoreTTL == InitStoreTTL /\ [][NextStoreTTL]_vars

(***************************************************************************)
(* SpecAsync: shouldProcessAsync applied to manifests and options drawn    *)
(* from bounded sets.                                                      *)
(***************************************************************************)
AsyncFileKinds == [size : {1, 3}, pages : {1, 3}]

RECURSIVE FileSeqs(_)
FileSeqs(n) ==
    IF n = 0 THEN {<<>>} ELSE {Append(fs, f) : fs \in FileSeqs(n - 1), f \in AsyncFileKinds}

\* the manifests a prepare may hand to the dispatcher, and the nil manifest
AsyncManifests ==
    {NoManifest} \cup
    {[op |-> "merge", files |-> fs, n |-> 0] : fs \in UNION {FileSeqs(k) : k \in 1..MaxFiles}}

AsyncOpts == [Scheduler : BOOLEAN, AsyncThresholdBytes : {-1, 0, 2}, AsyncThresholdPages : {-1, 0, 2}]

\* the handler evaluates shouldProcessAsync(manifest, opts)
DecideAsync(j) ==
    /\ hist[j].async = "unset"
    /\ hist' = [hist EXCEPT ![j].async =
                   IF shouldProcessAsync(hist[j].manifest, opts) THEN "yes" ELSE "no"]
    /\ UNCHANGED <<storeVars, harnessVars, opts, http, ws, queue, ex, ctxCancelled, timers,
                   restarts, elapsed, execCount, cancelledExec, dl, pureVars>>

InitAsync ==
    /\ store = [j \in Jobs |-> NoRecord]
    /\ storeVer = [j \in Jobs |-> 0]
    /\ storeFails = 0
    /\ staleCommit = FALSE
    /\ calls = [c \in Callers |-> IdleCall]
    /\ opts \in AsyncOpts
    /\ http = [j \in Jobs |-> "idle"]
    /\ ws = [j \in Jobs |-> NoWorkspace]
    /\ queue = [j \in Jobs |-> NoTask]
    /\ ex = [j \in Jobs |-> IdleEx]
    /\ ctxCancelled = [j \in Jobs |-> FALSE]
    /\ timers = [j \in Jobs |-> 0]
    /\ restarts = 0
    /\ elapsed = [j \in Jobs |-> FALSE]
    /\ execCount = [j \in Jobs |-> 0]
    /\ cancelledExec = [j \in Jobs |-> FALSE]
    /\ dl = [j \in Jobs |-> "none"]
    /\ hist \in [Jobs -> {[NoHist EXCEPT !.manifest = m] : m \in AsyncManifests}]
    /\ parse = NoParse
    /\ merge = NoMerge
    /\ kv = NoKv
    /\ prep = NoPrep
    /\ auth = NoAuth
    /\ reorder = NoReorder
    /\ sched = NoSched

NextAsync == \E j \in Jobs : DecideAsync(j)

SpecAsync == InitAsync /\ [][NextAsync]_vars

(***************************************************************************)
(* parsePageRanges / parseSingleRange. A range expression is the sequence  *)
(* of its characters.                                                      *)
(***************************************************************************)
Digits == {"0", "1", "2", "3", "4", "5", "6", "7", "8", "9"}

DigitValue(c) ==
    CASE c = "0" -> 0 [] c = "1" -> 1 [] c = "2" -> 2 [] c = "3" -> 3 [] c = "4" -> 4
      [] c = "5" -> 5 [] c = "6" -> 6 [] c = "7" -> 7 [] c = "8" -> 8 [] c = "9" -> 9

\* the value of a non-empty digit string
RECURSIVE DecimalValue(_)
DecimalValue(s) ==
    IF Len(s) = 1 THEN DigitValue(s[1])
    ELSE 10 * DecimalValue(SubSeq(s, 1, Len(s) - 1)) + DigitValue(s[Len(s)])

\* an Atoi that reads one digit only
AtoiOneDigit(s) ==
    IF Len(s) = 1 /\ s[1] \in Digits
    THEN [ok |-> TRUE, val |-> DigitValue(s[1])]
    ELSE [ok |-> FALSE, val |-> 0]

\* strconv.Atoi: an optional sign, then one or more decimal digits
Atoi(s) ==
    LET signed == s # <<>> /\ s[1] \in {"+", "-"}
        body == IF signed THEN Tail(s) ELSE s
    IN IF body = <<>> \/ \E i \in 1..Len(body) : body[i] \notin Digits
       THEN [ok |-> FALSE, val |-> 0]
       ELSE [ok |-> TRUE,
             val |-> IF signed /\ s[1] = "-" THEN 0 - DecimalValue(body) ELSE DecimalValue(body)]

\* strings.TrimSpace
RECURSIVE TrimSpace(_)
TrimSpace(s) ==
    IF s = <<>> THEN s
    ELSE IF s[1] = " " THEN TrimSpace(Tail(s))
    ELSE IF s[Len(s)] = " " THEN TrimSpace(SubSeq(s, 1, Len(s) - 1))
    ELSE s

\* strings.Contains(s, c) for a one-character c
Contains(s, c) == \E i \in 1..Len(s) : s[i] = c

\* the index of the first c in s (s contains c)
IndexOf(s, c) == CHOOSE i \in 1..Len(s) : s[i] = c /\ \A k \in 1..(i - 1) : s[k] # c

\* strings.Split(s, c): the pieces between the separators, one piece for no separator
RECURSIVE Split(_, _)
Split(s, c) ==
    IF ~Contains(s, c) THEN <<s>>
    ELSE <<SubSeq(s, 1, IndexOf(s, c) - 1)>> \o Split(SubSeq(s, IndexOf(s, c) + 1, Len(s)), c)

InvalidInput == [ok |-> FALSE, code |-> "INVALID_INPUT", ranges |-> <<>>]

\* a parseSingleRange that does not compare the end with the page count
parseSingleRangeUnbounded(seg, pageCount) ==
    IF Contains(seg, "-")
    THEN LET k == IndexOf(seg, "-")
             start == Atoi(TrimSpace(SubSeq(seg, 1, k - 1)))
             rest == TrimSpace(SubSeq(seg, k + 1, Len(seg)))
             end == IF rest = <<>> THEN [ok |-> TRUE, val |-> pageCount] ELSE Atoi(rest)
         IN IF ~start.ok \/ ~end.ok THEN [ok |-> FALSE, start |-> 0, end |-> 0]
            ELSE IF start.val < 1 \/ end.val < start.val
                 THEN [ok |-> FALSE, start |-> 0, end |-> 0]
                 ELSE [ok |-> TRUE, start |-> start.val, end |-> end.val]
    ELSE LET page == Atoi(seg)
         IN IF ~page.ok \/ page.val < 1
            THEN [ok |-> FALSE, start |-> 0, end |-> 0]
            ELSE [ok |-> TRUE, start |-> page.val, end |-> page.val]

\* parseSingleRange: "a-b", "a-" (to the last page) or a single page
parseSingleRange(seg, pageCount) ==
    IF Contains(seg, "-")
    THEN LET k == IndexOf(seg, "-")
             start == Atoi(TrimSpace(SubSeq(seg, 1, k - 1)))
             rest == TrimSpace(SubSeq(seg, k + 1, Len(seg)))
             end == IF rest = <<>> THEN [ok |-> TRUE, val |-> pageCount] ELSE Atoi(rest)
         IN IF ~start.ok \/ ~end.ok THEN [ok |-> FALSE, start |-> 0, end |-> 0]
            ELSE IF start.val < 1 \/ end.val < start.val \/ end.val > pageCount
                 THEN [ok |-> FALSE, start |-> 0, end |-> 0]
                 ELSE [ok |-> TRUE, start |-> start.val, end |-> end.val]
    ELSE LET page == Atoi(seg)
         IN IF ~page.ok \/ page.val < 1 \/ page.val > pageCount
            THEN [ok |-> FALSE, start |-> 0, end |-> 0]
            ELSE [ok |-> TRUE, start |-> page.val, end |-> page.val]

\* the loop of parsePageRanges over the segments, from segment i on
RECURSIVE ParseSegments(_, _, _, _, _, _)
ParseSegments(segments, i, pageCount, lastEnd, usedPages, ranges) ==
    IF i > Len(segments)
    THEN IF usedPages = {} THEN InvalidInput
         ELSE [ok |-> TRUE, code |-> "", ranges |-> ranges]
    ELSE LET seg == TrimSpace(segments[i])
             r == parseSingleRange(seg, pageCount)
         IN IF seg = <<>> THEN InvalidInput
            ELSE IF ~r.ok THEN InvalidInput
            ELSE IF r.start <= lastEnd THEN InvalidInput
            ELSE IF \E q \in r.start..r.end : q \in usedPages THEN InvalidInput
            ELSE IF r.end = pageCount /\ i # Len(segments) THEN InvalidInput
            ELSE ParseSegments(segments, i + 1, pageCount, r.end,
                               usedPages \cup (r.start..r.end),
                               Append(ranges, [Start |-> r.start, End |-> r.end]))

parsePageRanges(expr, pageCount) ==
    ParseSegments(Split(expr, ","), 1, pageCount, 0, {}, <<>>)

(***************************************************************************)
(* SpecRanges: parsePageRanges applied to expressions and page counts      *)
(* drawn from bounded sets.                                                *)
(***************************************************************************)
ExprChars == {"1", "2", "-", ",", " ", "x"}

RECURSIVE Exprs(_)
Exprs(n) == IF n = 0 THEN {<<>>} ELSE {Append(e, c) : e \in Exprs(n - 1), c \in ExprChars}

PageCounts == {0, 2, 3, 12}

\* the expressions of the range examples, against a 12-page source
ExampleExprs ==
    {<<"1", "-", "3", ",", "7", ",", "1", "0", "-">>,
     <<"3", "-", "1">>,
     <<"1", "-", "3", ",", "2">>,
     <<"1", "-", "3", ",", "7", ",", "1", "2", "-">>,
     <<"1", "-", "3", ",", "1", "0", "-", ",", "1", "2">>}

RangeInputs ==
    {[expr |-> e, pageCount |-> n] : e \in UNION {Exprs(k) : k \in 0..MaxExprLen}, n \in PageCounts}
      \cup {[expr |-> e, pageCount |-> 12] : e \in ExampleExprs}

\* prepareSplit / executeSplit call parsePageRanges(rangesExpr, stored.pages)
ParseRanges ==
    /\ parse.pc = "input"
    /\ parse' = [parse EXCEPT !.pc = "parsed", !.result = parsePageRanges(parse.expr, parse.pageCount)]
    /\ UNCHANGED <<storeVars, harnessVars, opts, http, ws, queue, ex, ctxCancelled, timers,
                   restarts, elapsed, execCount, cancelledExec, dl, hist, merge, kv, prep, auth, reorder, sched>>

InitRanges ==
    /\ store = [j \in Jobs |-> NoRecord]
    /\ storeVer = [j \in Jobs |-> 0]
    /\ storeFails = 0
    /\ staleCommit = FALSE
    /\ calls = [c \in Callers |-> IdleCall]
    /\ opts = [Scheduler |-> FALSE, AsyncThresholdBytes |-> 0, AsyncThresholdPages |-> 0]
    /\ http = [j \in Jobs |-> "idle"]
    /\ ws = [j \in Jobs |-> NoWorkspace]
    /\ queue = [j \in Jobs |-> NoTask]
    /\ ex = [j \in Jobs |-> IdleEx]
    /\ ctxCancelled = [j \in Jobs |-> FALSE]
    /\ timers = [j \in Jobs |-> 0]
    /\ restarts = 0
    /\ elapsed = [j \in Jobs |-> FALSE]
    /\ execCount = [j \in Jobs |-> 0]
    /\ cancelledExec = [j \in Jobs |-> FALSE]
    /\ dl = [j \in Jobs |-> "none"]
    /\ hist = [j \in Jobs |-> NoHist]
    /\ parse \in {[NoParse EXCEPT !.pc = "input", !.expr = i.expr, !.pageCount = i.pageCount] :
                     i \in RangeInputs}
    /\ merge = NoMerge
    /\ kv = NoKv
    /\ prep = NoPrep
    /\ auth = NoAuth
    /\ reorder = NoReorder
    /\ sched = NoSched

NextRanges == ParseRanges

SpecRanges == InitRanges /\ [][NextRanges]_vars

(***************************************************************************)
(* SpecSplit: executeSplit applied to a split job whose range expression   *)
(* prepareSplit accepted.                                                  *)
(***************************************************************************)
\* part metadata that counts a span without its last page
SplitPartsExclusive(ranges) ==
    [i \in 1..Len(ranges) |->
        [Filename |-> i, FromPage |-> ranges[i].Start, ToPage |-> ranges[i].End,
         Pages |-> ranges[i].End - ranges[i].Start]]

\* executeSplit: one SplitPart appended per range, part-01.pdf, part-02.pdf, ...
SplitParts(ranges) ==
    [i \in 1..Len(ranges) |->
        [Filename |-> i, FromPage |-> ranges[i].Start, ToPage |-> ranges[i].End,
         Pages |-> ranges[i].End - ranges[i].Start + 1]]

SplitOutcomes == {"ok", "cancelled", "collect_failed", "zip_failed", "meta_failed"}

\* executeSplit: parse, one part per range, zip, meta.json, Result
executeSplit(expr, pageCount, outcome) ==
    LET parsed == parsePageRanges(expr, pageCount)
    IN IF ~parsed.ok THEN [err |-> parsed.code, kind |-> "", parts |-> <<>>]
       ELSE IF outcome = "cancelled" THEN [err |-> "ctx", kind |-> "", parts |-> <<>>]
       ELSE IF outcome = "collect_failed"
            THEN [err |-> "UNSUPPORTED_PDF", kind |-> "", parts |-> <<>>]
       ELSE IF outcome \in {"zip_failed", "meta_failed"}
            THEN [err |-> "storage", kind |-> "", parts |-> <<>>]
       ELSE [err |-> "nil", kind |-> "zip", parts |-> SplitParts(parsed.ranges)]

\* the split jobs prepareSplit lets through: it parses the expression itself
SplitInputs == {i \in RangeInputs : parsePageRanges(i.expr, i.pageCount).ok}

\* RunJob's executeSplit on the manifest's ranges and page count
ExecuteSplitCall ==
    /\ parse.pc = "input"
    /\ \E outcome \in SplitOutcomes :
          parse' = [parse EXCEPT !.pc = "executed",
                                 !.result = parsePageRanges(parse.expr, parse.pageCount),
                                 !.split = executeSplit(parse.expr, parse.pageCount, outcome)]
    /\ UNCHANGED <<storeVars, harnessVars, opts, http, ws, queue, ex, ctxCancelled, timers,
                   restarts, elapsed, execCount, cancelledExec, dl, hist, merge, kv, prep, auth, reorder, sched>>

InitSplit ==
    /\ store = [j \in Jobs |-> NoRecord]
    /\ storeVer = [j \in Jobs |-> 0]
    /\ storeFails = 0
    /\ staleCommit = FALSE
    /\ calls = [c \in Callers |-> IdleCall]
    /\ opts = [Scheduler |-> FALSE, AsyncThresholdBytes |-> 0, AsyncThresholdPages |-> 0]
    /\ http = [j \in Jobs |-> "idle"]
    /\ ws = [j \in Jobs |-> NoWorkspace]
    /\ queue = [j \in Jobs |-> NoTask]
    /\ ex = [j \in Jobs |-> IdleEx]
    /\ ctxCancelled = [j \in Jobs |-> FALSE]
    /\ timers = [j \in Jobs |-> 0]
    /\ restarts = 0
    /\ elapsed = [j \in Jobs |-> FALSE]
    /\ execCount = [j \in Jobs |-> 0]
    /\ cancelledExec = [j \in Jobs |-> FALSE]
    /\ dl = [j \in Jobs |-> "none"]
    /\ hist = [j \in Jobs |-> NoHist]
    /\ parse \in {[NoParse EXCEPT !.pc = "input", !.expr = i.expr, !.pageCount = i.pageCount] :
                     i \in SplitInputs}
    /\ merge = NoMerge
    /\ kv = NoKv
    /\ prep = NoPrep
    /\ auth = NoAuth
    /\ reorder = NoReorder
    /\ sched = NoSched

NextSplit == ExecuteSplitCall

SpecSplit == InitSplit /\ [][NextSplit]_vars

(***************************************************************************)
(* SpecUpsert: Store.Upsert on one key, with a clock and the key's TTL.    *)
(***************************************************************************)
\* an Upsert that stamps createdAt on every call
UpsertRestamps(record, now, ttl) ==
    [record EXCEPT !.createdAt = now,
                   !.updatedAt = now,
                   !.expiresAt = IF record.expiresAt = 0 /\ ttl > 0 THEN now + ttl ELSE @]

\* Store.Upsert: the record as it is marshalled and written
Upsert(record, now, ttl) ==
    LET createdAt == IF record.createdAt = 0 THEN now ELSE record.createdAt
    IN [record EXCEPT !.createdAt = createdAt,
                      !.updatedAt = now,
                      !.expiresAt = IF record.expiresAt = 0 /\ ttl > 0 THEN createdAt + ttl ELSE @]

\* the records callers hand to Upsert
UpsertInputs ==
    {TimedRecord(st, pct, c, u, e) :
        st \in {StatusQueued, StatusRunning}, pct \in {0, 40}, c \in {0, 1}, u \in {0, 1},
        e \in {0, 7}}

\* Store.Upsert: rdb.Set(key, payload, s.ttl)
UpsertCall ==
    /\ kv.writes < MaxUpserts
    /\ \E r \in UpsertInputs :
          kv' = [kv EXCEPT !.rec = Upsert(r, kv.now, TTLTicks), !.deadline = kv.now + TTLTicks,
                           !.lastIn = r, !.lastAt = kv.now, !.writes = @ + 1]
    /\ UNCHANGED <<storeVars, harnessVars, opts, http, ws, queue, ex, ctxCancelled, timers,
                   restarts, elapsed, execCount, cancelledExec, dl, hist, parse, merge, prep, auth, reorder, sched>>

\* time passes; Redis drops the key when its TTL has run out
Tick ==
    /\ kv.now < MaxClock
    /\ kv' = [kv EXCEPT !.now = @ + 1,
                        !.rec = IF kv.deadline > 0 /\ kv.now + 1 >= kv.deadline
                                THEN NoTimedRecord ELSE @,
                        !.deadline = IF kv.deadline > 0 /\ kv.now + 1 >= kv.deadline THEN 0 ELSE @]
    /\ UNCHANGED <<storeVars, harnessVars, opts, http, ws, queue, ex, ctxCancelled, timers,
                   restarts, elapsed, execCount, cancelledExec, dl, hist, parse, merge, prep, auth, reorder, sched>>

InitUpsert ==
    /\ store = [j \in Jobs |-> NoRecord]
    /\ storeVer = [j \in Jobs |-> 0]
    /\ storeFails = 0
    /\ staleCommit = FALSE
    /\ calls = [c \in Callers |-> IdleCall]
    /\ opts = [Scheduler |-> FALSE, AsyncThresholdBytes |-> 0, AsyncThresholdPages |-> 0]
    /\ FlowIdle

NextUpsert == UpsertCall \/ Tick

SpecUpsert == InitUpsert /\ [][NextUpsert]_vars

(***************************************************************************)
(* SpecRecordTimes: the writes one job's record receives over its life     *)
(* (the queued upsert of Enqueue, the worker's running upsert at every     *)
(* delivery, UpdateProgress, MarkDone, MarkFailed) against the clock and   *)
(* the key's time-to-live.                                                 *)
(***************************************************************************)
\* Store.updatePartial on a record that Get found: mutate(&record),
\* record.UpdatedAt = time.Now(); createdAt and expiresAt are the stored ones
updatePartial(record, status, percent, now) ==
    [record EXCEPT !.status = status, !.percent = percent, !.updatedAt = now]

\* the mutations of UpdateProgress, MarkDone and MarkFailed
PartialMutations ==
    {[status |-> StatusRunning, percent |-> 50],
     [status |-> StatusSucceeded, percent |-> 100],
     [status |-> StatusFailed, percent |-> 50]}

\* a write of the record: rdb.Set / tx.Set(key, payload, s.ttl)
SetRecord(rec) ==
    [kv EXCEPT !.rec = rec, !.deadline = kv.now + TTLTicks, !.lastAt = kv.now,
               !.writes = @ + 1,
               !.updatedBack = @ \/ (kv.rec.status # "absent" /\ rec.updatedAt < kv.rec.updatedAt)]

\* Manager.Enqueue: the queued upsert, with a record that carries no timestamps
QueuedUpsertTimed ==
    /\ kv.writes = 0
    /\ LET rec == Upsert(TimedRecord(StatusQueued, 0, 0, 0, 0), kv.now, TTLTicks)
       IN kv' = [SetRecord(rec) EXCEPT !.queuedAt = rec.createdAt]
    /\ UNCHANGED <<storeVars, harnessVars, opts, http, ws, queue, ex, ctxCancelled, timers,
                   restarts, elapsed, execCount, cancelledExec, dl, hist, parse, merge, prep, auth, reorder, sched>>

\* handlePDFTask, at the first delivery and at a redelivery: the running upsert
\* with a new Record{JobID, Operation, Status, Progress}
RunningUpsertTimed ==
    /\ kv.writes > 0 /\ kv.writes < MaxRecordWrites
    /\ kv.rec.status \in {"absent", StatusQueued, StatusRunning}
    /\ kv' = SetRecord(Upsert(TimedRecord(StatusRunning, 0, 0, 0, 0), kv.now, TTLTicks))
    /\ UNCHANGED <<storeVars, harnessVars, opts, http, ws, queue, ex, ctxCancelled, timers,
                   restarts, elapsed, execCount, cancelledExec, dl, hist, parse, merge, prep, auth, reorder, sched>>

\* UpdateProgress, MarkDone, MarkFailed: ErrNotFound when the key is gone
PartialUpdate ==
    /\ kv.writes > 0 /\ kv.writes < MaxRecordWrites
    /\ kv.rec.status = StatusRunning
    /\ \E m \in PartialMutations :
          kv' = SetRecord(updatePartial(kv.rec, m.status, m.percent, kv.now))
    /\ UNCHANGED <<storeVars, harnessVars, opts, http, ws, queue, ex, ctxCancelled, timers,
                   restarts, elapsed, execCount, cancelledExec, dl, hist, parse, merge, prep, auth, reorder, sched>>

InitRecordTimes == InitUpsert

NextRecordTimes == QueuedUpsertTimed \/ RunningUpsertTimed \/ PartialUpdate \/ Tick

SpecRecordTimes == InitRecordTimes /\ [][NextRecordTimes]_vars

(***************************************************************************)
(* SpecManifest: a prepare taken step by step (createWorkspace, staging,   *)
(* writeManifest), a crash of the process at any step, and the lookups of  *)
(* the job made afterwards.                                                *)
(***************************************************************************)
\* createWorkspace: os.MkdirAll(inDir)
MkdirIn(j) ==
    /\ prep.pc = "start"
    /\ \E ok \in BOOLEAN :
          IF ok
          THEN /\ ws' = [ws EXCEPT ![j].dir = TRUE, ![j].inDir = TRUE]
               /\ prep' = [prep EXCEPT !.pc = "mkdir_out"]
          ELSE /\ prep' = [prep EXCEPT !.pc = "failed"]
               /\ UNCHANGED ws
    /\ UNCHANGED <<storeVars, harnessVars, opts, http, queue, ex, ctxCancelled, timers,
                   restarts, elapsed, execCount, cancelledExec, dl, hist, parse, merge, kv, auth, reorder, sched>>

\* createWorkspace: os.MkdirAll(outDir); its error is returned as it is
MkdirOut(j) ==
    /\ prep.pc = "mkdir_out"
    /\ \E ok \in BOOLEAN :
          IF ok
          THEN /\ ws' = [ws EXCEPT ![j].outDir = TRUE]
               /\ prep' = [prep EXCEPT !.pc = "stage"]
          ELSE /\ prep' = [prep EXCEPT !.pc = "failed"]
               /\ UNCHANGED ws
    /\ UNCHANGED <<storeVars, harnessVars, opts, http, queue, ex, ctxCancelled, timers,
                   restarts, elapsed, execCount, cancelledExec, dl, hist, parse, merge, kv, auth, reorder, sched>>

\* storeMultipartFile and the validation of what was staged; removeDir on error
StageFiles(j) ==
    /\ prep.pc = "stage"
    /\ \E ok \in BOOLEAN :
          IF ok
          THEN /\ prep' = [prep EXCEPT !.pc = "manifest_open"]
               /\ UNCHANGED ws
          ELSE /\ ws' = [ws EXCEPT ![j] = removeDir(@)]
               /\ prep' = [prep EXCEPT !.pc = "failed"]
    /\ UNCHANGED <<storeVars, harnessVars, opts, http, queue, ex, ctxCancelled, timers,
                   restarts, elapsed, execCount, cancelledExec, dl, hist, parse, merge, kv, auth, reorder, sched>>

\* writeManifest: os.OpenFile(path, O_CREATE|O_WRONLY|O_TRUNC) at the final path
ManifestOpen(j) ==
    /\ prep.pc = "manifest_open"
    /\ \E ok \in BOOLEAN :
          IF ok
          THEN /\ ws' = [ws EXCEPT ![j].manifest = PartialManifest]
               /\ prep' = [prep EXCEPT !.pc = "manifest_write"]
          ELSE /\ ws' = [ws EXCEPT ![j] = removeDir(@)]
               /\ prep' = [prep EXCEPT !.pc = "failed"]
    /\ UNCHANGED <<storeVars, harnessVars, opts, http, queue, ex, ctxCancelled, timers,
                   restarts, elapsed, execCount, cancelledExec, dl, hist, parse, merge, kv, auth, reorder, sched>>

\* writeManifest: enc.Encode(manifest) into the open file; removeDir on error
ManifestWrite(j) ==
    /\ prep.pc = "manifest_write"
    /\ \E ok \in BOOLEAN, op \in Ops :
          IF ok
          THEN /\ ws' = [ws EXCEPT ![j].manifest =
                            [op |-> op, files |-> <<[size |-> 1, pages |-> 1]>>, n |-> 0]]
               /\ prep' = [prep EXCEPT !.pc = "done"]
          ELSE /\ ws' = [ws EXCEPT ![j] = removeDir(@)]
               /\ prep' = [prep EXCEPT !.pc = "failed"]
    /\ UNCHANGED <<storeVars, harnessVars, opts, http, queue, ex, ctxCancelled, timers,
                   restarts, elapsed, execCount, cancelledExec, dl, hist, parse, merge, kv, auth, reorder, sched>>

\* the process dies in the middle of the prepare; the files stay as they are
CrashInPrepare ==
    /\ prep.pc \in {"mkdir_out", "stage", "manifest_open", "manifest_write"}
    /\ prep' = [prep EXCEPT !.pc = "crashed"]
    /\ UNCHANGED <<storeVars, harnessVars, opts, http, ws, queue, ex, ctxCancelled, timers,
                   restarts, elapsed, execCount, cancelledExec, dl, hist, parse, merge, kv, auth, reorder, sched>>

\* the error OpenResultFile returns: loadManifest's, else os.Open's of the output
openResultErr(w) ==
    IF loadManifest(w) # "nil" THEN loadManifest(w)
    ELSE IF w.output = "none" THEN "ErrNotExist"
    ELSE "nil"

\* a download handler that answers every error with 404
downloadStatusAlways404(err) == IF err = "nil" THEN 200 ELSE 404

\* jobDownloadHandler: errors.Is(err, fs.ErrNotExist) is 404, any other error 500
downloadStatus(err) ==
    IF err = "nil" THEN 200
    ELSE IF err = "ErrNotExist" THEN 404
    ELSE 500

\* RunJob for the jobID once the prepare is over: loadManifest, then the executor;
\* every error return removes the directory
RunJobCall(j) ==
    /\ prep.pc \in {"done", "failed", "crashed"}
    /\ prep.run = "none"
    /\ IF loadManifest(ws[j]) # "nil"
       THEN /\ ws' = [ws EXCEPT ![j] = removeDir(@)]
            /\ prep' = [prep EXCEPT !.run = loadManifest(ws[j]), !.runSeen = ws[j]]
       ELSE \E ok \in BOOLEAN :
               IF ok
               THEN /\ ws' = [ws EXCEPT ![j].output = "complete"]
                    /\ prep' = [prep EXCEPT !.run = "nil", !.runSeen = ws[j]]
               ELSE /\ ws' = [ws EXCEPT ![j] = removeDir(@)]
                    /\ prep' = [prep EXCEPT !.run = "exec_error", !.runSeen = ws[j]]
    /\ UNCHANGED <<storeVars, harnessVars, opts, http, queue, ex, ctxCancelled, timers,
                   restarts, elapsed, execCount, cancelledExec, dl, hist, parse, merge, kv, auth, reorder, sched>>

\* the download handler's OpenResultFile for the jobID once the prepare is over
OpenResultFileCall(j) ==
    /\ prep.pc \in {"done", "failed", "crashed"}
    /\ prep.open = "none"
    /\ prep' = [prep EXCEPT !.open = openResultErr(ws[j]), !.openSeen = ws[j],
                            !.status = downloadStatus(openResultErr(ws[j]))]
    /\ UNCHANGED <<storeVars, harnessVars, opts, http, ws, queue, ex, ctxCancelled, timers,
                   restarts, elapsed, execCount, cancelledExec, dl, hist, parse, merge, kv, auth, reorder, sched>>

\* Service.DiscardJob for the jobID, whatever is on disk
DiscardJobCall(j) ==
    /\ prep.pc \in {"done", "failed", "crashed"}
    /\ prep.discards < MaxDiscards
    /\ ws' = [ws EXCEPT ![j] = DiscardJob(@)]
    /\ prep' = [prep EXCEPT !.discards = @ + 1, !.discardSeen = ws[j],
                            !.discardErr = removeAllErr(ws[j])]
    /\ UNCHANGED <<storeVars, harnessVars, opts, http, queue, ex, ctxCancelled, timers,
                   restarts, elapsed, execCount, cancelledExec, dl, hist, parse, merge, kv, auth, reorder, sched>>

\* a Cleanup without the sync.Once
cleanupRunsAlways(once) == TRUE

\* Result.Cleanup: cleanupOnce.Do runs the removal on the first call only
cleanupRuns(once) == ~once

\* Result.Cleanup on the Result a successful RunJob returned
CleanupCall(j) ==
    /\ prep.run = "nil"
    /\ prep.cleanups < MaxCleanups
    /\ IF cleanupRuns(prep.cleanupOnce)
       THEN /\ ws' = [ws EXCEPT ![j] = Cleanup(@)]
            /\ prep' = [prep EXCEPT !.cleanups = @ + 1, !.cleanupOnce = TRUE,
                                    !.removals = @ + 1]
       ELSE /\ prep' = [prep EXCEPT !.cleanups = @ + 1]
            /\ UNCHANGED ws
    /\ UNCHANGED <<storeVars, harnessVars, opts, http, queue, ex, ctxCancelled, timers,
                   restarts, elapsed, execCount, cancelledExec, dl, hist, parse, merge, kv, auth, reorder, sched>>

InitManifest ==
    /\ store = [j \in Jobs |-> NoRecord]
    /\ storeVer = [j \in Jobs |-> 0]
    /\ storeFails = 0
    /\ staleCommit = FALSE
    /\ calls = [c \in Callers |-> IdleCall]
    /\ opts \in OptsChoices
    /\ http = [j \in Jobs |-> "idle"]
    /\ ws = [j \in Jobs |-> NoWorkspace]
    /\ queue = [j \in Jobs |-> NoTask]
    /\ ex = [j \in Jobs |-> IdleEx]
    /\ ctxCancelled = [j \in Jobs |-> FALSE]
    /\ timers = [j \in Jobs |-> 0]
    /\ restarts = 0
    /\ elapsed = [j \in Jobs |-> FALSE]
    /\ execCount = [j \in Jobs |-> 0]
    /\ cancelledExec = [j \in Jobs |-> FALSE]
    /\ dl = [j \in Jobs |-> "none"]
    /\ hist = [j \in Jobs |-> NoHist]
    /\ parse = NoParse
    /\ merge = NoMerge
    /\ kv = NoKv
    /\ prep \in {[NoPrep EXCEPT !.pc = "start"], [NoPrep EXCEPT !.pc = "failed"]}
    /\ auth = NoAuth
    /\ reorder = NoReorder
    /\ sched = NoSched

NextManifest ==
    \/ \E j \in Jobs :
          \/ MkdirIn(j) \/ MkdirOut(j) \/ StageFiles(j) \/ ManifestOpen(j) \/ ManifestWrite(j)
          \/ RunJobCall(j) \/ OpenResultFileCall(j)
          \/ DiscardJobCall(j) \/ CleanupCall(j)
    \/ CrashInPrepare

SpecManifest == InitManifest /\ [][NextManifest]_vars

(***************************************************************************)
(* HTTP handlers (MergeHandler, ReorderHandler, SplitHandler,              *)
(* OptimizeHandler): prepare, then Schedule or RunJob.                     *)
(***************************************************************************)
\* the workspace a prepare leaves behind
PrepareResult(op, files, n, outcome) ==
    CASE outcome = "ok" ->
            [NewWorkspace EXCEPT !.manifest = [op |-> op, files |-> files, n |-> n]]
      [] outcome = "cancelled" -> NewWorkspace
      [] outcome = "mkdir_out_failed" -> [NoWorkspace EXCEPT !.dir = TRUE, !.inDir = TRUE]
      [] OTHER -> removeDir(NewWorkspace)

\* PrepareMergeJob / PrepareReorderJob / PrepareSplitJob / PrepareOptimizeJob
PrepareJob(j) ==
    /\ http[j] = "idle"
    /\ \E op \in Ops :
       \E files \in InputFiles(op), n \in RangeCounts(op), outcome \in PrepareOutcomes(op) :
          /\ ws' = [ws EXCEPT ![j] = PrepareResult(op, files, n, outcome)]
          /\ http' = [http EXCEPT ![j] = IF outcome = "ok" THEN "prepared" ELSE "err_prepare"]
          /\ hist' = [hist EXCEPT ![j].prepare = outcome,
                                  ![j].manifest = PrepareResult(op, files, n, outcome).manifest]
    /\ UNCHANGED <<storeVars, harnessVars, opts, queue, ex, ctxCancelled, timers, restarts,
                   elapsed, execCount, cancelledExec, dl, pureVars>>

\* the handler's async branch: Scheduler.Schedule = Manager.Enqueue, DiscardJob on error
Schedule(j) ==
    /\ http[j] = "prepared"
    /\ Route(hist[j].manifest, opts) = "async"
    /\ \E outcome \in {"ok", "upsert_failed", "enqueue_failed"} :
          /\ IF outcome = "upsert_failed"
             THEN UNCHANGED <<store, storeVer>>
             ELSE /\ store' = [store EXCEPT ![j] = Record(StatusQueued, 0, "queued")]
                  /\ storeVer' = [storeVer EXCEPT ![j] = @ + 1]
          /\ IF outcome = "ok"
             THEN /\ queue' = [queue EXCEPT ![j] = [state |-> "pending", deliveries |-> 0]]
                  /\ http' = [http EXCEPT ![j] = "202"]
                  /\ hist' = [hist EXCEPT ![j].async = "yes", ![j].Schedule = @ + 1]
                  /\ UNCHANGED ws
             ELSE /\ ws' = [ws EXCEPT ![j] = DiscardJob(@)]
                  /\ http' = [http EXCEPT ![j] = "err_schedule"]
                  /\ hist' = [hist EXCEPT ![j].async = "yes", ![j].Schedule = @ + 1,
                                          ![j].DiscardJob = @ + 1]
                  /\ UNCHANGED queue
    /\ UNCHANGED <<storeFails, harnessVars, opts, ex, ctxCancelled, timers, restarts,
                   elapsed, execCount, cancelledExec, dl, pureVars>>

\* the handler's sync branch: svc.RunJob(ctx, jobID, nil) starts
RunInline(j) ==
    /\ http[j] = "prepared"
    /\ Route(hist[j].manifest, opts) = "sync"
    /\ http' = [http EXCEPT ![j] = "running"]
    /\ hist' = [hist EXCEPT ![j].async = "no", ![j].RunJob = @ + 1]
    /\ ex' = [ex EXCEPT ![j] = [IdleEx EXCEPT !.mode = "inline", !.pc = "load"]]
    /\ ctxCancelled' = [ctxCancelled EXCEPT ![j] = FALSE]
    /\ UNCHANGED <<storeVars, harnessVars, opts, ws, queue, timers, restarts, elapsed,
                   execCount, cancelledExec, dl, pureVars>>

\* the handler after RunJob returned: respondWithError, or streamResult and the deferred Cleanup
InlineRespond(j) ==
    /\ ex[j].mode = "inline"
    /\ ex[j].pc \in {"run_ok", "run_err"}
    /\ IF ex[j].pc = "run_err"
       THEN /\ http' = [http EXCEPT ![j] = "err_run"]
            /\ UNCHANGED ws
       ELSE /\ http' = [http EXCEPT ![j] = IF ws[j].output # "none" THEN "200" ELSE "err_stream"]
            /\ ws' = [ws EXCEPT ![j] = Cleanup(@)]
    /\ ex' = [ex EXCEPT ![j] = IdleEx]
    /\ UNCHANGED <<storeVars, harnessVars, opts, queue, ctxCancelled, timers, restarts,
                   elapsed, execCount, cancelledExec, dl, hist, pureVars>>

(***************************************************************************)
(* SpecOrder: PrepareMergeJob applied to file counts and order arrays      *)
(* drawn from bounded sets.                                                *)
(***************************************************************************)
\* a validateMergeInputs that does not look for duplicates
validateMergeInputsNoSeen(nFiles, order) ==
    IF nFiles = 0 THEN "INVALID_INPUT"
    ELSE IF nFiles > maxUploadFiles THEN "LIMIT_EXCEEDED"
    ELSE IF Len(order) > 0
         THEN IF Len(order) # nFiles THEN "INVALID_INPUT"
              ELSE IF \E i \in 1..Len(order) : order[i] < 0 \/ order[i] >= nFiles
                   THEN "INVALID_INPUT"
                   ELSE "nil"
         ELSE "nil"

\* validateMergeInputs(files, order), files given by their number
validateMergeInputs(nFiles, order) ==
    IF nFiles = 0 THEN "INVALID_INPUT"
    ELSE IF nFiles > maxUploadFiles THEN "LIMIT_EXCEEDED"
    ELSE IF Len(order) > 0
         THEN IF Len(order) # nFiles THEN "INVALID_INPUT"
              ELSE IF \E i \in 1..Len(order) : order[i] < 0 \/ order[i] >= nFiles
                   THEN "INVALID_INPUT"
                   ELSE IF \E i, k \in 1..Len(order) : i < k /\ order[i] = order[k]
                        THEN "INVALID_INPUT"
                        ELSE "nil"
         ELSE "nil"

RECURSIVE Orders(_)
Orders(n) ==
    IF n = 0 THEN {<<>>} ELSE {Append(o, x) : o \in Orders(n - 1), x \in (0 - 1)..MaxOrderLen}

MergeInputs ==
    {[nFiles |-> n, order |-> o] :
        n \in (0..MaxOrderLen) \cup {maxUploadFiles + 1},
        o \in UNION {Orders(k) : k \in 0..MaxOrderLen}}

\* PrepareMergeJob: validateMergeInputs, then prepareMerge
PrepareMergeJobCall(j) ==
    /\ merge.pc = "input"
    /\ LET err == validateMergeInputs(merge.nFiles, merge.order)
           files == [i \in 1..merge.nFiles |-> [size |-> 1, pages |-> 1]]
       IN IF err # "nil"
          THEN /\ merge' = [merge EXCEPT !.pc = "returned", !.err = err]
               /\ UNCHANGED ws
          ELSE \E outcome \in PrepareOutcomes("merge") :
                  /\ ws' = [ws EXCEPT ![j] = PrepareResult("merge", files, 0, outcome)]
                  /\ merge' = [merge EXCEPT !.pc = "returned", !.created = TRUE,
                                            !.err = IF outcome = "ok" THEN "nil" ELSE outcome]
    /\ UNCHANGED <<storeVars, harnessVars, opts, http, queue, ex, ctxCancelled, timers,
                   restarts, elapsed, execCount, cancelledExec, dl, hist, parse, kv, prep, auth, reorder, sched>>

InitOrder ==
    /\ store = [j \in Jobs |-> NoRecord]
    /\ storeVer = [j \in Jobs |-> 0]
    /\ storeFails = 0
    /\ staleCommit = FALSE
    /\ calls = [c \in Callers |-> IdleCall]
    /\ opts = [Scheduler |-> FALSE, AsyncThresholdBytes |-> 0, AsyncThresholdPages |-> 0]
    /\ http = [j \in Jobs |-> "idle"]
    /\ ws = [j \in Jobs |-> NoWorkspace]
    /\ queue = [j \in Jobs |-> NoTask]
    /\ ex = [j \in Jobs |-> IdleEx]
    /\ ctxCancelled = [j \in Jobs |-> FALSE]
    /\ timers = [j \in Jobs |-> 0]
    /\ restarts = 0
    /\ elapsed = [j \in Jobs |-> FALSE]
    /\ execCount = [j \in Jobs |-> 0]
    /\ cancelledExec = [j \in Jobs |-> FALSE]
    /\ dl = [j \in Jobs |-> "none"]
    /\ hist = [j \in Jobs |-> NoHist]
    /\ parse = NoParse
    /\ merge \in {[NoMerge EXCEPT !.pc = "input", !.nFiles = i.nFiles, !.order = i.order] :
                     i \in MergeInputs}
    /\ kv = NoKv
    /\ prep = NoPrep
    /\ auth = NoAuth
    /\ reorder = NoReorder
    /\ sched = NoSched

NextOrder == \E j \in Jobs : PrepareMergeJobCall(j)

SpecOrder == InitOrder /\ [][NextOrder]_vars

(***************************************************************************)
(* SpecReorder: PrepareReorderJob applied to page counts and order arrays  *)
(* drawn from bounded sets.                                                *)
(***************************************************************************)
\* a validateOrder that does not look for duplicates
validateOrderNoSeen(order, pageCount) ==
    IF Len(order) # pageCount THEN "INVALID_INPUT"
    ELSE IF \E i \in 1..Len(order) : order[i] < 0 \/ order[i] >= pageCount
         THEN "INVALID_INPUT"
         ELSE "nil"

\* validateOrder(order, pageCount): length, then range and seen[] per index
validateOrder(order, pageCount) ==
    IF Len(order) # pageCount THEN "INVALID_INPUT"
    ELSE IF \E i \in 1..Len(order) :
               \/ order[i] < 0 \/ order[i] >= pageCount
               \/ \E k \in 1..(i - 1) : order[k] = order[i]
         THEN "INVALID_INPUT"
         ELSE "nil"

ReorderInputs ==
    {[pages |-> n, order |-> o] :
        n \in 1..MaxOrderLen, o \in UNION {Orders(k) : k \in 0..MaxOrderLen}}

\* PrepareReorderJob: createWorkspace, storeMultipartFile, validateOrder, writeManifest
PrepareReorderJobCall(j) ==
    /\ reorder.pc = "input"
    /\ \E outcome \in {"mkdir_out_failed", "stage_failed", "ok", "manifest_failed"} :
          LET verr == validateOrder(reorder.order, reorder.pages)
              file == <<[size |-> reorder.pages, pages |-> reorder.pages]>>
          IN IF outcome \in {"mkdir_out_failed", "stage_failed"}
             THEN /\ ws' = [ws EXCEPT ![j] = PrepareResult("reorder", file, 0,
                                   IF outcome = "stage_failed" THEN "failed" ELSE outcome)]
                  /\ reorder' = [reorder EXCEPT !.pc = "returned", !.err = outcome]
             ELSE IF verr # "nil"
             THEN /\ ws' = [ws EXCEPT ![j] = removeDir(NewWorkspace)]
                  /\ reorder' = [reorder EXCEPT !.pc = "returned", !.validated = verr,
                                                !.err = verr]
             ELSE /\ ws' = [ws EXCEPT ![j] = PrepareResult("reorder", file, 0,
                                   IF outcome = "ok" THEN "ok" ELSE "failed")]
                  /\ reorder' = [reorder EXCEPT !.pc = "returned", !.validated = verr,
                                                !.err = IF outcome = "ok" THEN "nil" ELSE outcome]
    /\ UNCHANGED <<storeVars, harnessVars, opts, http, queue, ex, ctxCancelled, timers,
                   restarts, elapsed, execCount, cancelledExec, dl, hist, parse, merge, kv,
                   prep, auth, sched>>

InitReorder ==
    /\ store = [j \in Jobs |-> NoRecord]
    /\ storeVer = [j \in Jobs |-> 0]
    /\ storeFails = 0
    /\ staleCommit = FALSE
    /\ calls = [c \in Callers |-> IdleCall]
    /\ opts = [Scheduler |-> FALSE, AsyncThresholdBytes |-> 0, AsyncThresholdPages |-> 0]
    /\ http = [j \in Jobs |-> "idle"]
    /\ ws = [j \in Jobs |-> NoWorkspace]
    /\ queue = [j \in Jobs |-> NoTask]
    /\ ex = [j \in Jobs |-> IdleEx]
    /\ ctxCancelled = [j \in Jobs |-> FALSE]
    /\ timers = [j \in Jobs |-> 0]
    /\ restarts = 0
    /\ elapsed = [j \in Jobs |-> FALSE]
    /\ execCount = [j \in Jobs |-> 0]
    /\ cancelledExec = [j \in Jobs |-> FALSE]
    /\ dl = [j \in Jobs |-> "none"]
    /\ hist = [j \in Jobs |-> NoHist]
    /\ parse = NoParse
    /\ merge = NoMerge
    /\ kv = NoKv
    /\ prep = NoPrep
    /\ auth = NoAuth
    /\ reorder \in {[NoReorder EXCEPT !.pc = "input", !.pages = i.pages, !.order = i.order] :
                       i \in ReorderInputs}
    /\ sched = NoSched

NextReorder == \E j \in Jobs : PrepareReorderJobCall(j)

SpecReorder == InitReorder /\ [][NextReorder]_vars

(***************************************************************************)
(* SpecMerge: executeMerge applied to the staged files and the order of a  *)
(* merge job that PrepareMergeJob let through.                             *)
(***************************************************************************)
\* toJobFiles: the manifest entry of a staged file
toJobFiles(stored) ==
    [i \in 1..Len(stored) |->
        [StoredName |-> stored[i].path, OriginalName |-> stored[i].originalName,
         Size |-> stored[i].size, Pages |-> stored[i].pages]]

\* storedFilesFromManifest: the staged files as RunJob rebuilds them
storedFilesFromManifest(files) ==
    [i \in 1..Len(files) |->
        [path |-> files[i].StoredName, originalName |-> files[i].OriginalName,
         size |-> files[i].Size, pages |-> files[i].Pages]]

\* an executeMerge that merges in upload order whatever the order says
orderedFilesAsUploaded(storedFiles, order) == storedFiles

\* executeMerge: ordered[i] = storedFiles[order[i]], or a copy when no order is given
orderedFiles(storedFiles, order) ==
    IF Len(order) = 0 THEN storedFiles
    ELSE [i \in 1..Len(order) |-> storedFiles[order[i] + 1]]

RECURSIVE TotalPages(_)
\* executeMerge: totalPages += sf.pages over the ordered files
TotalPages(sources) ==
    IF sources = <<>> THEN 0 ELSE sources[1].Pages + TotalPages(Tail(sources))

\* executeMerge: the SourceFileMeta of the files in merge order
MergeSources(ordered) ==
    [i \in 1..Len(ordered) |->
        [Name |-> ordered[i].originalName, Size |-> ordered[i].size, Pages |-> ordered[i].pages]]

MergeOutcomes == {"ok", "cancelled", "merge_failed", "stat_failed", "meta_failed"}

\* executeMerge: order the files, merge, stat the output, meta.json, Result
executeMerge(storedFiles, order, outcome) ==
    LET sources == MergeSources(orderedFiles(storedFiles, order))
        failed(e) == [err |-> e, kind |-> "", meta |-> [TotalPages |-> 0, Sources |-> <<>>]]
    IN CASE outcome = "cancelled" -> failed("ctx")
         [] outcome = "merge_failed" -> failed("UNSUPPORTED_PDF")
         [] outcome \in {"stat_failed", "meta_failed"} -> failed("storage")
         [] outcome = "ok" ->
              [err |-> "nil", kind |-> "pdf",
               meta |-> [TotalPages |-> TotalPages(sources), Sources |-> sources]]

MergePageCounts == {1, 5}

RECURSIVE StagedFiles(_)
\* n staged uploads: in/<index>, the upload's name, its size and its page count
StagedFiles(n) ==
    IF n = 0 THEN {<<>>}
    ELSE {Append(fs, [path |-> n, originalName |-> n, size |-> p, pages |-> p]) :
             fs \in StagedFiles(n - 1), p \in MergePageCounts}

\* the merge jobs validateMergeInputs lets through
PreparedMerges ==
    {[files |-> fs, order |-> o] :
        fs \in UNION {StagedFiles(n) : n \in 1..MaxOrderLen},
        o \in UNION {Orders(k) : k \in 0..MaxOrderLen}}

\* RunJob's merge branch: storedFilesFromManifest, then executeMerge with manifest.Order
ExecuteMergeCall ==
    /\ merge.pc = "prepared"
    /\ \E outcome \in MergeOutcomes :
          LET r == executeMerge(storedFilesFromManifest(toJobFiles(merge.files)),
                                merge.order, outcome)
          IN merge' = [merge EXCEPT !.pc = "executed", !.execErr = r.err, !.kind = r.kind,
                                    !.meta = r.meta]
    /\ UNCHANGED <<storeVars, harnessVars, opts, http, ws, queue, ex, ctxCancelled, timers,
                   restarts, elapsed, execCount, cancelledExec, dl, hist, parse, kv, prep, auth, reorder, sched>>

InitMerge ==
    /\ store = [j \in Jobs |-> NoRecord]
    /\ storeVer = [j \in Jobs |-> 0]
    /\ storeFails = 0
    /\ staleCommit = FALSE
    /\ calls = [c \in Callers |-> IdleCall]
    /\ opts = [Scheduler |-> FALSE, AsyncThresholdBytes |-> 0, AsyncThresholdPages |-> 0]
    /\ http = [j \in Jobs |-> "idle"]
    /\ ws = [j \in Jobs |-> NoWorkspace]
    /\ queue = [j \in Jobs |-> NoTask]
    /\ ex = [j \in Jobs |-> IdleEx]
    /\ ctxCancelled = [j \in Jobs |-> FALSE]
    /\ timers = [j \in Jobs |-> 0]
    /\ restarts = 0
    /\ elapsed = [j \in Jobs |-> FALSE]
    /\ execCount = [j \in Jobs |-> 0]
    /\ cancelledExec = [j \in Jobs |-> FALSE]
    /\ dl = [j \in Jobs |-> "none"]
    /\ hist = [j \in Jobs |-> NoHist]
    /\ parse = NoParse
    /\ merge \in {[NoMerge EXCEPT !.pc = "prepared", !.nFiles = Len(i.files),
                                   !.files = i.files, !.order = i.order, !.err = "nil",
                                   !.created = TRUE] :
                     i \in {m \in PreparedMerges :
                               validateMergeInputs(Len(m.files), m.order) = "nil"}}
    /\ kv = NoKv
    /\ prep = NoPrep
    /\ auth = NoAuth
    /\ reorder = NoReorder
    /\ sched = NoSched

NextMerge == ExecuteMergeCall

SpecMerge == InitMerge /\ [][NextMerge]_vars

(***************************************************************************)
(* SpecLogin: Manager.Login called concurrently from one client IP, with   *)
(* right and wrong credentials, while the clock advances.                  *)
(***************************************************************************)
\* checkLock under m.lock: the time the IP stays locked, 0 when it is not
checkLock(state, now) ==
    IF ~state.present THEN 0
    ELSE IF now > state.lockedUntil THEN 0
    ELSE state.lockedUntil - now

\* recordFailure under m.lock: the attempt state after one more failure
recordFailure(state, now) ==
    LET base == IF ~state.present \/ now - state.firstAttempt > loginWindow
                THEN [NoAttempts EXCEPT !.present = TRUE, !.firstAttempt = now]
                ELSE state
        count == base.count + 1
    IN IF count >= maxLoginAttempts
       THEN [base EXCEPT !.count = maxLoginAttempts, !.lockedUntil = now + lockDuration]
       ELSE [base EXCEPT !.count = count]

\* resetAttempts under m.lock: delete(m.attempts, ip)
resetAttempts(state) == NoAttempts

\* Login up to the lock check: a locked IP is answered 429 TOO_MANY_ATTEMPTS
LoginCheckLock(c) ==
    /\ auth.req[c] = "idle"
    /\ auth.logins < MaxLogins
    /\ \E good \in BOOLEAN :
          IF checkLock(auth.attempts, auth.clock) > 0
          THEN auth' = [auth EXCEPT !.logins = @ + 1, !.rejected = @ + 1,
                                    !.last = "TOO_MANY_ATTEMPTS"]
          ELSE auth' = [auth EXCEPT !.logins = @ + 1,
                                    !.req[c] = IF good THEN "verify_good" ELSE "verify_bad"]
    /\ UNCHANGED <<storeVars, harnessVars, opts, http, ws, queue, ex, ctxCancelled, timers,
                   restarts, elapsed, execCount, cancelledExec, dl, hist, parse, merge, kv, prep, reorder, sched>>

\* Login after the lock check: the credentials are compared, then recordFailure
\* or resetAttempts
LoginVerify(c) ==
    /\ auth.req[c] \in {"verify_good", "verify_bad"}
    /\ IF auth.req[c] = "verify_bad"
       THEN auth' = [auth EXCEPT !.req[c] = "idle",
                                 !.attempts = recordFailure(@, auth.clock),
                                 !.failedAt = Append(@, auth.clock),
                                 !.verifiedLocked =
                                     @ \/ checkLock(auth.attempts, auth.clock) > 0,
                                 !.last = "INVALID_CREDENTIALS"]
       ELSE auth' = [auth EXCEPT !.req[c] = "idle",
                                 !.attempts = resetAttempts(@),
                                 !.verifiedLocked =
                                     @ \/ checkLock(auth.attempts, auth.clock) > 0,
                                 !.last = "ok"]
    /\ UNCHANGED <<storeVars, harnessVars, opts, http, ws, queue, ex, ctxCancelled, timers,
                   restarts, elapsed, execCount, cancelledExec, dl, hist, parse, merge, kv, prep, reorder, sched>>

LoginTickSteps == {2, 5}

\* time.Now() moves on
LoginTick ==
    /\ \E d \in LoginTickSteps :
          /\ auth.clock + d <= MaxLoginClock
          /\ auth' = [auth EXCEPT !.clock = @ + d]
    /\ UNCHANGED <<storeVars, harnessVars, opts, http, ws, queue, ex, ctxCancelled, timers,
                   restarts, elapsed, execCount, cancelledExec, dl, hist, parse, merge, kv, prep, reorder, sched>>

InitLogin ==
    /\ store = [j \in Jobs |-> NoRecord]
    /\ storeVer = [j \in Jobs |-> 0]
    /\ storeFails = 0
    /\ staleCommit = FALSE
    /\ calls = [c \in Callers |-> IdleCall]
    /\ opts = [Scheduler |-> FALSE, AsyncThresholdBytes |-> 0, AsyncThresholdPages |-> 0]
    /\ http = [j \in Jobs |-> "idle"]
    /\ ws = [j \in Jobs |-> NoWorkspace]
    /\ queue = [j \in Jobs |-> NoTask]
    /\ ex = [j \in Jobs |-> IdleEx]
    /\ ctxCancelled = [j \in Jobs |-> FALSE]
    /\ timers = [j \in Jobs |-> 0]
    /\ restarts = 0
    /\ elapsed = [j \in Jobs |-> FALSE]
    /\ execCount = [j \in Jobs |-> 0]
    /\ cancelledExec = [j \in Jobs |-> FALSE]
    /\ dl = [j \in Jobs |-> "none"]
    /\ hist = [j \in Jobs |-> NoHist]
    /\ parse = NoParse
    /\ merge = NoMerge
    /\ kv = NoKv
    /\ prep = NoPrep
    /\ auth = [NoAuth EXCEPT !.clock = 1, !.req = [c \in Callers |-> "idle"]]
    /\ reorder = NoReorder
    /\ sched = NoSched

NextLogin ==
    \/ \E c \in Callers : LoginCheckLock(c) \/ LoginVerify(c)
    \/ LoginTick

SpecLogin == InitLogin /\ [][NextLogin]_vars

(***************************************************************************)
(* RunJob and the executors, shared by the inline path and the worker.     *)
(***************************************************************************)
\* reportProgress clamps the percent into [0, 100]
Clamp(p) == IF p < 0 THEN 0 ELSE IF p > 100 THEN 100 ELSE p

\* an executeSplit that does not scale the process percent over the spans
StagePercentUnscaled(op, stage, i, n) ==
    CASE stage = "process" -> IF op = "split" THEN 20 + (60 * i) ELSE 40
      [] stage = "write" -> IF op = "split" THEN 90 ELSE 80
      [] stage = "completed" -> 100

\* the percent an executor reports at a checkpoint
StagePercent(op, stage, i, n) ==
    CASE stage = "process" -> IF op = "split" THEN 20 + ((60 * i) \div n) ELSE 40
      [] stage = "write" -> IF op = "split" THEN 90 ELSE 80
      [] stage = "completed" -> 100

\* where the executor continues after a checkpoint
AfterReport(e, op, stage) ==
    CASE stage = "process" -> [e EXCEPT !.pc = IF op = "split" THEN "collect" ELSE "transform"]
      [] stage = "write" -> [e EXCEPT !.pc = "finalize"]
      [] stage = "completed" ->
            IF e.mode = "inline"
            THEN [e EXCEPT !.pc = "run_ok"]
            ELSE [e EXCEPT !.pc = "upd_r", !.op = [kind |-> "done"]]

\* reportProgress(progress, stage, percent): nothing when the reporter is nil,
\* else the worker's callback, Store.UpdateProgress
Report(e, m, stage) ==
    IF e.mode = "inline"
    THEN AfterReport(e, m.op, stage)
    ELSE [e EXCEPT !.pc = "upd_r",
                   !.op = [kind |-> "progress", stage |-> stage,
                           percent |-> Clamp(StagePercent(m.op, stage, e.i, m.n))],
                   !.reports = Append(@, [stage |-> stage,
                                          percent |-> Clamp(StagePercent(m.op, stage, e.i, m.n))])]

\* the codes of the operation errors (pdf.Error) an executor returns
OperationErrors == {"INVALID_INPUT", "LIMIT_EXCEEDED", "UNSUPPORTED_PDF"}

\* a failJobWithError that stores every error's own text as the code
ClassifyVerbatim(runErr) == runErr

\* failJobWithError: an operation error keeps its code, anything else is INTERNAL_ERROR
Classify(runErr) ==
    IF runErr \in OperationErrors
    THEN runErr
    ELSE "INTERNAL_ERROR"

\* RunJob returned an error: the handler responds, the worker calls failJobWithError
RunJobError(e) ==
    IF e.mode = "inline"
    THEN [e EXCEPT !.pc = "run_err"]
    ELSE [e EXCEPT !.pc = "upd_r", !.op = [kind |-> "failed", code |-> Classify(e.runErr)]]

\* an executor returned an error; RunJob has yet to remove the workspace
ExecError(e, err) == [e EXCEPT !.pc = "exec_err", !.runErr = err]

\* RunJob: loadManifest, then the switch on manifest.Operation
LoadManifest(j) ==
    /\ ex[j].pc = "load"
    /\ IF loadManifest(ws[j]) # "nil"
       THEN /\ ws' = [ws EXCEPT ![j] = removeDir(@)]
            /\ ex' = [ex EXCEPT ![j] = RunJobError([@ EXCEPT !.runErr = loadManifest(ws[j])])]
            /\ hist' = [hist EXCEPT ![j].missing = @ \/ ex[j].mode = "task"]
            /\ UNCHANGED execCount
       ELSE /\ execCount' = [execCount EXCEPT ![j] = @ + 1]
            /\ UNCHANGED hist
            /\ ex' = [ex EXCEPT ![j] =
                  IF ws[j].manifest.op \in {"merge", "split"}
                  THEN [@ EXCEPT !.pc = "ctxcheck", !.i = 1, !.m = ws[j].manifest]
                  ELSE Report([@ EXCEPT !.i = 1, !.m = ws[j].manifest], ws[j].manifest,
                              "process")]
            /\ UNCHANGED ws
    /\ UNCHANGED <<storeVars, harnessVars, opts, http, queue, ctxCancelled, timers, restarts,
                   elapsed, cancelledExec, dl, pureVars>>

\* executeMerge's ctx.Err() check, executeSplit's select on ctx.Done() per span
CtxCheck(j) ==
    /\ ex[j].pc = "ctxcheck"
    /\ ex' = [ex EXCEPT ![j] =
          IF ctxCancelled[j]
          THEN ExecError(@, "context canceled")
          ELSE Report(@, ex[j].m, "process")]
    /\ UNCHANGED <<storeVars, harnessVars, opts, http, ws, queue, ctxCancelled, timers,
                   restarts, elapsed, execCount, cancelledExec, dl, hist, pureVars>>

\* mergeCreateFileCompat / pdfapi.CollectFile / runGhostscript into the output path
Transform(j) ==
    /\ ex[j].pc = "transform"
    /\ \E ok \in BOOLEAN :
          /\ ok => ws[j].outDir
          /\ ok => ~(ex[j].m.op = "optimize" /\ ctxCancelled[j])
          /\ IF ok
             THEN /\ ws' = [ws EXCEPT ![j].output = "complete"]
                  /\ ex' = [ex EXCEPT ![j] = Report(@, ex[j].m, "write")]
             ELSE /\ ex' = [ex EXCEPT ![j] = ExecError(@, "UNSUPPORTED_PDF")]
                  /\ UNCHANGED ws
    /\ UNCHANGED <<storeVars, harnessVars, opts, http, queue, ctxCancelled, timers, restarts,
                   elapsed, execCount, cancelledExec, dl, hist, pureVars>>

\* executeSplit: pdfapi.CollectFile of span i into out/part-i.pdf
Collect(j) ==
    /\ ex[j].pc = "collect"
    /\ \E ok \in BOOLEAN :
          /\ ok => ws[j].outDir
          /\ ex' = [ex EXCEPT ![j] =
                IF ~ok THEN ExecError(@, "UNSUPPORTED_PDF")
                ELSE IF @.i < ex[j].m.n
                     THEN [@ EXCEPT !.pc = "ctxcheck", !.i = @ + 1]
                     ELSE [@ EXCEPT !.pc = "zip_open"]]
    /\ UNCHANGED <<storeVars, harnessVars, opts, http, ws, queue, ctxCancelled, timers,
                   restarts, elapsed, execCount, cancelledExec, dl, hist, pureVars>>

\* createZip: os.OpenFile(outputPath, O_CREATE|O_WRONLY|O_TRUNC)
ZipOpen(j) ==
    /\ ex[j].pc = "zip_open"
    /\ IF ws[j].outDir
       THEN /\ ws' = [ws EXCEPT ![j].output = "partial"]
            /\ ex' = [ex EXCEPT ![j].pc = "zip_write"]
       ELSE /\ ex' = [ex EXCEPT ![j] = ExecError(@, "zip create failed")]
            /\ UNCHANGED ws
    /\ UNCHANGED <<storeVars, harnessVars, opts, http, queue, ctxCancelled, timers, restarts,
                   elapsed, execCount, cancelledExec, dl, hist, pureVars>>

\* createZip: the parts are copied into the archive and the writer is closed
ZipWrite(j) ==
    /\ ex[j].pc = "zip_write"
    /\ \E ok \in BOOLEAN :
          /\ ok => ws[j].outDir
          /\ IF ok
             THEN /\ ws' = [ws EXCEPT ![j].output = "complete"]
                  /\ ex' = [ex EXCEPT ![j] = Report(@, ex[j].m, "write")]
             ELSE /\ ex' = [ex EXCEPT ![j] = ExecError(@, "zip write failed")]
                  /\ UNCHANGED ws
    /\ UNCHANGED <<storeVars, harnessVars, opts, http, queue, ctxCancelled, timers, restarts,
                   elapsed, execCount, cancelledExec, dl, hist, pureVars>>

\* os.Stat of the output, writeJSON of meta.json, time.AfterFunc(expire, removeDir)
Finalize(j) ==
    /\ ex[j].pc = "finalize"
    /\ \E ok \in BOOLEAN :
          /\ ok => (ws[j].dir /\ ws[j].output # "none")
          /\ IF ok
             THEN /\ ws' = [ws EXCEPT ![j].meta = TRUE]
                  /\ timers' = [timers EXCEPT ![j] = @ + 1]
                  /\ ex' = [ex EXCEPT ![j] = Report(@, ex[j].m, "completed")]
             ELSE /\ ex' = [ex EXCEPT ![j] = ExecError(@, "stat or meta failed")]
                  /\ UNCHANGED <<ws, timers>>
    /\ UNCHANGED <<storeVars, harnessVars, opts, http, queue, ctxCancelled, restarts,
                   elapsed, execCount, cancelledExec, dl, hist, pureVars>>

\* RunJob: if runErr != nil, removeDir(ws.dir) and return the error
RunJobCleanup(j) ==
    /\ ex[j].pc = "exec_err"
    /\ ws' = [ws EXCEPT ![j] = removeDir(@)]
    /\ ex' = [ex EXCEPT ![j] = RunJobError(@)]
    /\ hist' = [hist EXCEPT ![j].execErr = IF ex[j].mode = "task" THEN Classify(ex[j].runErr) ELSE @]
    /\ UNCHANGED <<storeVars, harnessVars, opts, http, queue, ctxCancelled, timers, restarts,
                   elapsed, execCount, cancelledExec, dl, pureVars>>

(***************************************************************************)
(* The worker: asynq delivers the task to Manager.handlePDFTask.           *)
(***************************************************************************)
\* a retry budget of two redeliveries
ShouldRetryTwice(deliveries) == deliveries <= MaxRetry + 1

\* asynq retries a task whose handler returned an error while retried < MaxRetry
ShouldRetry(deliveries) == deliveries <= MaxRetry

\* a store round trip on a cancelled context fails; otherwise it may fail MaxStoreFailures times
StoreOutcome(j, ok) ==
    /\ ok => ~ctxCancelled[j]
    /\ ~ok => (ctxCancelled[j] \/ storeFails < MaxStoreFailures)
    /\ storeFails' = IF ~ok /\ ~ctxCancelled[j] THEN storeFails + 1 ELSE storeFails

\* a worker takes the task: handlePDFTask starts with a fresh context
TaskStart(j) ==
    /\ queue[j].state = "pending"
    /\ ex[j].mode = "none"
    /\ queue' = [queue EXCEPT ![j] = [state |-> "active", deliveries |-> @.deliveries + 1]]
    /\ ex' = [ex EXCEPT ![j] = [IdleEx EXCEPT !.mode = "task", !.pc = "upsert"]]
    /\ ctxCancelled' = [ctxCancelled EXCEPT ![j] = FALSE]
    /\ UNCHANGED <<storeVars, harnessVars, opts, http, ws, timers, restarts, elapsed,
                   execCount, cancelledExec, dl, hist, pureVars>>

\* handlePDFTask: store.Upsert of a running record, load stage, 0 percent
RunningUpsert(j) ==
    /\ ex[j].pc = "upsert"
    /\ \E ok \in BOOLEAN :
          /\ StoreOutcome(j, ok)
          /\ IF ok
             THEN /\ store' = [store EXCEPT ![j] = Record(StatusRunning, 0, "load")]
                  /\ storeVer' = [storeVer EXCEPT ![j] = @ + 1]
                  /\ ex' = [ex EXCEPT ![j].pc = "load"]
             ELSE /\ ex' = [ex EXCEPT ![j].pc = "return", ![j].ret = "err", ![j].storeErr = TRUE]
                  /\ UNCHANGED <<store, storeVer>>
    /\ UNCHANGED <<harnessVars, opts, http, ws, queue, ctxCancelled, timers, restarts,
                   elapsed, execCount, cancelledExec, dl, hist, pureVars>>

\* a handler that returns the execute error to the queue after MarkFailed
UpdReturnedRetryFailed(e, m, ok) ==
    IF e.op.kind = "progress"
    THEN AfterReport([e EXCEPT !.storeErr = @ \/ ~ok], m.op, e.op.stage)
    ELSE [e EXCEPT !.pc = "return", !.storeErr = @ \/ ~ok,
                   !.ret = IF ok /\ e.op.kind # "failed" THEN "nil" ELSE "err"]

\* how the worker goes on after UpdateProgress (error dropped) or MarkDone / MarkFailed
\* (finishJob / failJob return the store's error)
UpdReturned(e, m, ok) ==
    IF e.op.kind = "progress"
    THEN AfterReport([e EXCEPT !.storeErr = @ \/ ~ok], m.op, e.op.stage)
    ELSE [e EXCEPT !.pc = "return", !.storeErr = @ \/ ~ok,
                   !.ret = IF ok THEN "nil" ELSE "err"]

\* updatePartial called by the worker: s.rdb.Get
UpdRead(j) ==
    /\ ex[j].pc = "upd_r"
    /\ \E ok \in BOOLEAN :
          /\ StoreOutcome(j, ok)
          /\ ex' = [ex EXCEPT ![j] =
                IF ok /\ store[j] # NoRecord
                THEN [@ EXCEPT !.pc = "upd_w", !.rec = store[j], !.ver = storeVer[j]]
                ELSE UpdReturned(@, ex[j].m, FALSE)]
    /\ UNCHANGED <<store, storeVer, harnessVars, opts, http, ws, queue, ctxCancelled, timers,
                   restarts, elapsed, execCount, cancelledExec, dl, hist, pureVars>>

\* updatePartial called by the worker: mutate, tx.Set, tx.Exec
UpdWrite(j) ==
    /\ ex[j].pc = "upd_w"
    /\ \E ok \in BOOLEAN :
          /\ StoreOutcome(j, ok)
          /\ IF ok /\ TxCommits(ex[j].ver, storeVer[j])
             THEN /\ store' = [store EXCEPT ![j] = Mutate(ex[j].rec, ex[j].op)]
                  /\ storeVer' = [storeVer EXCEPT ![j] = @ + 1]
             ELSE UNCHANGED <<store, storeVer>>
          /\ ex' = [ex EXCEPT ![j] =
                IF ok /\ ~TxCommits(ex[j].ver, storeVer[j])
                THEN [@ EXCEPT !.pc = "upd_r"]
                ELSE UpdReturned(@, ex[j].m, ok)]
    /\ UNCHANGED <<harnessVars, opts, http, ws, queue, ctxCancelled, timers, restarts,
                   elapsed, execCount, cancelledExec, dl, hist, pureVars>>

\* handlePDFTask returns: nil completes the task, an error is retried or archived
TaskReturn(j) ==
    /\ ex[j].mode = "task"
    /\ ex[j].pc = "return"
    /\ queue' = [queue EXCEPT ![j].state =
          IF ex[j].ret = "nil" THEN "done"
          ELSE IF ShouldRetry(queue[j].deliveries) THEN "pending" ELSE "archived"]
    /\ ex' = [ex EXCEPT ![j] = IdleEx]
    /\ UNCHANGED <<storeVars, harnessVars, opts, http, ws, ctxCancelled, timers, restarts,
                   elapsed, execCount, cancelledExec, dl, hist, pureVars>>

\* the executor is between its entry and its return
InExecute(e) ==
    \/ e.pc \in {"ctxcheck", "transform", "collect", "zip_open", "zip_write", "finalize"}
    \/ (e.pc \in {"upd_r", "upd_w"} /\ e.op.kind = "progress")

\* the request or task context is cancelled while RunJob / handlePDFTask is in flight
CancelCtx(j) ==
    /\ ex[j].mode # "none"
    /\ ex[j].pc \notin {"return", "run_ok", "run_err"}
    /\ ~ctxCancelled[j]
    /\ ctxCancelled' = [ctxCancelled EXCEPT ![j] = TRUE]
    /\ cancelledExec' = [cancelledExec EXCEPT ![j] = @ \/ (ex[j].mode = "task" /\ InExecute(ex[j]))]
    /\ UNCHANGED <<storeVars, harnessVars, opts, http, ws, queue, ex, timers, restarts,
                   elapsed, execCount, dl, hist, pureVars>>

(***************************************************************************)
(* Cleanup timers, restarts, expiry and downloads.                         *)
(***************************************************************************)
\* the function given to time.AfterFunc runs: removeDir(ws.dir)
TimerFire(j) ==
    /\ timers[j] > 0
    /\ timers' = [timers EXCEPT ![j] = @ - 1]
    /\ ws' = [ws EXCEPT ![j] = removeDir(@)]
    /\ UNCHANGED <<storeVars, harnessVars, opts, http, queue, ex, ctxCancelled, restarts,
                   elapsed, execCount, cancelledExec, dl, hist, pureVars>>

\* the process restarts while no handler is in flight: its timers are gone
Restart ==
    /\ restarts < MaxRestarts
    /\ \A j \in Jobs : ex[j].mode = "none" /\ http[j] \notin {"prepared", "running"}
    /\ restarts' = restarts + 1
    /\ timers' = [j \in Jobs |-> 0]
    /\ UNCHANGED <<storeVars, harnessVars, opts, http, ws, queue, ex, ctxCancelled, elapsed,
                   execCount, cancelledExec, dl, hist, pureVars>>

\* JobExpireMinutes pass after the terminal state; a timer of a live process set
\* before the terminal state has fired by then
ExpiryElapses(j) ==
    /\ store[j].status \in Terminal
    /\ ex[j].mode = "none"
    /\ timers[j] = 0
    /\ ~elapsed[j]
    /\ elapsed' = [elapsed EXCEPT ![j] = TRUE]
    /\ UNCHANGED <<storeVars, harnessVars, opts, http, ws, queue, ex, ctxCancelled, timers,
                   restarts, execCount, cancelledExec, dl, hist, pureVars>>

\* OpenResultFile for a job whose id the client got with the 202
OpenResult(w) ==
    IF loadManifest(w) # "nil" \/ w.output = "none" THEN "not_found" ELSE w.output

OpenResultFile(j) ==
    /\ http[j] = "202"
    /\ dl' = [dl EXCEPT ![j] = OpenResult(ws[j])]
    /\ dl'[j] # dl[j]
    /\ UNCHANGED <<storeVars, harnessVars, opts, http, ws, queue, ex, ctxCancelled, timers,
                   restarts, elapsed, execCount, cancelledExec, hist, pureVars>>

(***************************************************************************)
(* Spec: the program as wired.                                             *)
(***************************************************************************)
Init ==
    /\ store = [j \in Jobs |-> NoRecord]
    /\ storeVer = [j \in Jobs |-> 0]
    /\ storeFails = 0
    /\ staleCommit = FALSE
    /\ calls = [c \in Callers |-> IdleCall]
    /\ opts \in OptsChoices
    /\ FlowIdle

Next ==
    \/ \E j \in Jobs :
          \/ PrepareJob(j) \/ Schedule(j) \/ RunInline(j) \/ InlineRespond(j)
          \/ LoadManifest(j) \/ CtxCheck(j) \/ Transform(j) \/ Collect(j)
          \/ ZipOpen(j) \/ ZipWrite(j) \/ Finalize(j) \/ RunJobCleanup(j)
          \/ TaskStart(j) \/ RunningUpsert(j) \/ UpdRead(j) \/ UpdWrite(j) \/ TaskReturn(j)
          \/ CancelCtx(j) \/ TimerFire(j) \/ ExpiryElapses(j) \/ OpenResultFile(j)
    \/ Restart

Spec == Init /\ [][Next]_vars

(***************************************************************************)
(* SpecEnqueue: Manager.Enqueue step by step, next to the worker that      *)
(* takes the task and the expiry of the record's key.                      *)
(***************************************************************************)
\* an Enqueue that pushes the task before it writes the record
EnqueueStepsPushFirst == <<"push", "upsert">>

\* Manager.Enqueue: m.store.Upsert of the queued record, then m.client.EnqueueContext
EnqueueSteps == <<"upsert", "push">>

\* one step of Enqueue; an error of the step is returned at once
EnqueueStep(j) ==
    /\ sched.pc = "run"
    /\ \E ok \in BOOLEAN :
          LET st == EnqueueSteps[sched.step]
              pc == IF ~ok THEN "err" ELSE IF sched.step = Len(EnqueueSteps) THEN "ok" ELSE "run"
          IN /\ IF ok /\ st = "upsert"
                THEN /\ store' = [store EXCEPT ![j] = Record(StatusQueued, 0, "queued")]
                     /\ storeVer' = [storeVer EXCEPT ![j] = @ + 1]
                ELSE UNCHANGED <<store, storeVer>>
             /\ IF ok /\ st = "push"
                THEN queue' = [queue EXCEPT ![j] = [state |-> "pending", deliveries |-> 0]]
                ELSE UNCHANGED queue
             /\ sched' = [sched EXCEPT
                   !.pc = pc,
                   !.step = IF ok /\ pc = "run" THEN @ + 1 ELSE @,
                   !.overwrote = @ \/ (ok /\ st = "upsert"
                                         /\ store[j].status \in {StatusRunning, StatusSucceeded,
                                                                 StatusFailed})]
    /\ UNCHANGED <<storeFails, harnessVars, opts, http, ws, ex, ctxCancelled, timers,
                   restarts, elapsed, execCount, cancelledExec, dl, hist, parse, merge, kv,
                   prep, auth, reorder>>

\* handlePDFTask starts on the task: the running upsert, whose error ends the delivery
WorkerTake(j) ==
    /\ queue[j].state = "pending"
    /\ \E ok \in BOOLEAN :
          /\ IF ok
             THEN /\ store' = [store EXCEPT ![j] = Record(StatusRunning, 0, "load")]
                  /\ storeVer' = [storeVer EXCEPT ![j] = @ + 1]
                  /\ queue' = [queue EXCEPT ![j] = [state |-> "active",
                                                     deliveries |-> @.deliveries + 1]]
             ELSE /\ UNCHANGED <<store, storeVer>>
                  /\ queue' = [queue EXCEPT ![j] =
                        [state |-> IF ShouldRetry(@.deliveries + 1) THEN "pending" ELSE "archived",
                         deliveries |-> @.deliveries + 1]]
    /\ sched' = [sched EXCEPT !.startedBare = @ \/ (store[j] = NoRecord /\ ~sched.expired)]
    /\ UNCHANGED <<storeFails, harnessVars, opts, http, ws, ex, ctxCancelled, timers,
                   restarts, elapsed, execCount, cancelledExec, dl, hist, parse, merge, kv,
                   prep, auth, reorder>>

\* the progress callback (the executor's next, higher checkpoint), MarkDone or
\* MarkFailed of the active delivery (updatePartial)
WorkerUpdate(j) ==
    /\ queue[j].state = "active"
    /\ \E op \in CallOps :
          /\ op.kind = "progress" => op.percent > store[j].percent
          /\ IF store[j] = NoRecord
             THEN UNCHANGED <<store, storeVer>>
             ELSE /\ store' = [store EXCEPT ![j] = Mutate(@, op)]
                  /\ storeVer' = [storeVer EXCEPT ![j] = @ + 1]
          /\ queue' = [queue EXCEPT ![j].state =
                IF op.kind = "progress" THEN "active"
                ELSE IF store[j] # NoRecord THEN "done"
                ELSE IF ShouldRetry(queue[j].deliveries) THEN "pending" ELSE "archived"]
    /\ UNCHANGED <<storeFails, harnessVars, opts, http, ws, ex, ctxCancelled, timers,
                   restarts, elapsed, execCount, cancelledExec, dl, hist, pureVars>>

\* Redis drops the key when the TTL given to Set runs out
KeyExpires(j) ==
    /\ store[j] # NoRecord
    /\ store' = [store EXCEPT ![j] = NoRecord]
    /\ sched' = [sched EXCEPT !.expired = TRUE]
    /\ UNCHANGED <<storeVer, storeFails, harnessVars, opts, http, ws, queue, ex, ctxCancelled,
                   timers, restarts, elapsed, execCount, cancelledExec, dl, hist, parse, merge,
                   kv, prep, auth, reorder>>

InitEnqueue ==
    /\ store = [j \in Jobs |-> NoRecord]
    /\ storeVer = [j \in Jobs |-> 0]
    /\ storeFails = 0
    /\ staleCommit = FALSE
    /\ calls = [c \in Callers |-> IdleCall]
    /\ opts \in OptsChoices
    /\ http = [j \in Jobs |-> "idle"]
    /\ ws = [j \in Jobs |-> NoWorkspace]
    /\ queue = [j \in Jobs |-> NoTask]
    /\ ex = [j \in Jobs |-> IdleEx]
    /\ ctxCancelled = [j \in Jobs |-> FALSE]
    /\ timers = [j \in Jobs |-> 0]
    /\ restarts = 0
    /\ elapsed = [j \in Jobs |-> FALSE]
    /\ execCount = [j \in Jobs |-> 0]
    /\ cancelledExec = [j \in Jobs |-> FALSE]
    /\ dl = [j \in Jobs |-> "none"]
    /\ hist = [j \in Jobs |-> NoHist]
    /\ parse = NoParse
    /\ merge = NoMerge
    /\ kv = NoKv
    /\ prep = NoPrep
    /\ auth = NoAuth
    /\ reorder = NoReorder
    /\ sched = [NoSched EXCEPT !.pc = "run", !.step = 1]

NextEnqueue ==
    \E j \in Jobs : EnqueueStep(j) \/ WorkerTake(j) \/ WorkerUpdate(j) \/ KeyExpires(j)

SpecEnqueue == InitEnqueue /\ [][NextEnqueue]_vars

(***************************************************************************)
(* Properties.                                                             *)
(***************************************************************************)
Max(S) == CHOOSE x \in S : \A y \in S : y <= x

StatusRank(st) ==
    CASE st = "absent" -> 0
      [] st = StatusQueued -> 1
      [] st = StatusRunning -> 2
      [] st \in Terminal -> 3

\* C1: the percent of a job's record, as Get returns it, never decreases from
\* one write of the record to the next.
MonotonicProgress ==
    [][\A j \in Jobs :
          (store[j] # NoRecord /\ store'[j] # NoRecord) => store'[j].percent >= store[j].percent]_vars

\* C2: no write moves a record's status backwards: a done or error record keeps
\* its status, a running record does not become queued again.
StatusForward ==
    [][\A j \in Jobs :
          /\ store[j].status \in Terminal => store'[j].status = store[j].status
          /\ StatusRank(store'[j].status) >= StatusRank(store[j].status)]_vars

AllProgressCalls == \A c \in Callers : calls[c].op.kind = "progress"
AllReturned == \A c \in Callers : calls[c].pc = "returned"

\* C3: when N concurrent UpdateProgress calls on one record, each with a percent above
\* the committed one, have all returned, all succeeded and the stored percent is
\* the largest percent submitted.
ConcurrentProgressKeepsMax ==
    \A j \in Jobs :
       (AllProgressCalls /\ AllReturned) =>
          /\ \A c \in Callers : calls[c].result = "ok"
          /\ store[j].percent = Max({calls[c].op.percent : c \in Callers})

\* C4: updatePartial never commits over a record that was written after it read it.
NoStaleCommit == ~staleCommit

\* C5: a job's Execute step runs at most once over the job's life, and exactly once
\* when the job's record ends done.
ExecuteAtMostOnce ==
    \A j \in Jobs :
       /\ execCount[j] <= 1
       /\ store[j].status = StatusSucceeded => execCount[j] = 1

\* C5 amended: Execute runs at most once per delivery of the job's task and at most
\* once on the inline path, so at most 1 + MaxRetry times, and at least once when
\* the job's record is done.
ExecuteOncePerDelivery ==
    \A j \in Jobs :
       /\ execCount[j] <= queue[j].deliveries + (IF http[j] \in {"running", "200", "err_run", "err_stream"} THEN 1 ELSE 0)
       /\ execCount[j] <= 1 + MaxRetry
       /\ http[j] \in {"running", "200", "err_run", "err_stream"} => execCount[j] <= 1
       /\ store[j].status = StatusSucceeded => execCount[j] >= 1

ExecutedTwiceAndDone ==
    \E j \in Jobs : execCount[j] = 2 /\ store[j].status = StatusSucceeded /\ queue[j].state = "done"

\* the handler of the delivery that was cancelled has returned
HandlerReturned(j) == ex[j].mode = "none" /\ queue[j].state \in {"pending", "done", "archived"}

\* C6: once the handler of a task whose context was cancelled during execute has
\* returned, the record is in status error with a cancellation-specific code.
CancelledJobMarkedFailed ==
    \A j \in Jobs :
       (cancelledExec[j] /\ HandlerReturned(j)) =>
          (store[j].status = StatusFailed /\ store[j].err = "CANCELED")

\* nothing is left to run for the job: no handler, no task, no timer
Quiescent(j) ==
    /\ http[j] \in {"err_prepare", "err_schedule", "202", "200", "err_run", "err_stream"}
    /\ ex[j].mode = "none"
    /\ queue[j].state \in {"none", "done", "archived"}
    /\ timers[j] = 0

\* C7: when nothing is left to run for a job, its workspace directory is gone.
WorkspaceRemovedAtRest == \A j \in Jobs : Quiescent(j) => ~ws[j].dir

SyncResponded(j) == http[j] \in {"200", "err_run", "err_stream"}

ExpiredWorkspaceRemoved == \A j \in Jobs : elapsed[j] => ~ws[j].dir

\* C10: OpenResultFile never hands out an output whose transformation has not
\* completed.
NoPartialDownload == \A j \in Jobs : dl[j] # "partial"

ExactlyOneOfScheduleAndRunJob ==
    \A j \in Jobs :
       /\ hist[j].Schedule + hist[j].RunJob <= 1
       /\ hist[j].Schedule = 1 => shouldProcessAsync(hist[j].manifest, opts)
       /\ hist[j].RunJob = 1 => ~shouldProcessAsync(hist[j].manifest, opts)
       /\ http[j] = "202" => (hist[j].Schedule = 1 /\ hist[j].RunJob = 0 /\ queue[j] # NoTask)
       /\ http[j] \in {"running", "200", "err_run", "err_stream"} =>
             (hist[j].RunJob = 1 /\ hist[j].Schedule = 0 /\ queue[j] = NoTask)
       /\ http[j] \in {"202", "err_schedule", "running", "200", "err_run", "err_stream"} =>
             hist[j].prepare = "ok"
       /\ hist[j].prepare \notin {"", "ok"} =>
             (http[j] = "err_prepare" /\ hist[j].Schedule = 0 /\ hist[j].RunJob = 0)

Accepted202 == \E j \in Jobs : http[j] = "202" /\ hist[j].Schedule = 1 /\ hist[j].RunJob = 0

\* C13: when a prepare returns an error after createWorkspace succeeded (staging
\* or validation failure, manifest write failure, cancellation between staged
\* files), the workspace directory it created no longer exists.
PrepareErrorRemovesWorkspace ==
    \A j \in Jobs :
       (http[j] = "err_prepare" /\ hist[j].prepare \in {"failed", "cancelled"}) => ~ws[j].dir

\* RunJob has returned an error to the HTTP handler or to handlePDFTask
RunJobReturnedError(j) ==
    \/ ex[j].pc = "run_err"
    \/ (ex[j].mode = "task" /\ ex[j].op.kind = "failed")

TaskOver(j) == queue[j].state \in {"done", "archived"}

\* C15: when the task of an async job whose execute failed is over, the stored
\* record has status error and the code of the failure the executor produced
\* (the operation error's own code, INTERNAL_ERROR for anything else).
ExecuteFailureMirrored ==
    \A j \in Jobs :
       (TaskOver(j) /\ hist[j].execErr # "") =>
          (store[j].status = StatusFailed /\ store[j].err = hist[j].execErr)

\* C16: while no record exists for a jobID, an UpdateProgress, MarkDone or
\* MarkFailed that returns returns the not-found error, and no step creates a
\* record - also when the record expired between the update's read and its write.
UpdateOfMissingRecordFails ==
    [][\A j \in Jobs :
          store[j] = NoRecord =>
             /\ store'[j] = NoRecord
             /\ \A c \in Callers :
                   (calls[c].pc # "returned" /\ calls'[c].pc = "returned") =>
                      calls'[c].result = "not_found"]_vars

\* C17: once the handler of a delivery that found the manifest missing has
\* returned, the record has status error with code INTERNAL_ERROR and the task is
\* completed, not retried.
MissingManifestFailsWithoutRetry ==
    \A j \in Jobs :
       (hist[j].missing /\ ex[j].mode = "none") =>
          /\ store[j].status = StatusFailed /\ store[j].err = "INTERNAL_ERROR"
          /\ queue[j].state = "done"

\* C17 amended: when the handler of a delivery that found the manifest missing
\* returns nil, MarkFailed has stored status error with code INTERNAL_ERROR and the
\* task is completed without a retry; when MarkFailed fails the handler returns
\* that error, the record stays running and the task is retried or archived.
MissingManifestFailsWhenStored ==
    [][\A j \in Jobs :
          (ex[j].mode = "task" /\ ex[j].pc = "return" /\ ex[j].runErr = "ErrNotExist"
             /\ ex'[j].mode = "none") =>
             IF ex[j].ret = "nil"
             THEN /\ store[j].status = StatusFailed /\ store[j].err = "INTERNAL_ERROR"
                  /\ queue'[j].state = "done"
             ELSE /\ store[j].status = StatusRunning /\ ex[j].storeErr
                  /\ queue'[j].state \in {"pending", "archived"}]_vars

MissingManifestMarkedFailed ==
    \E j \in Jobs :
       /\ hist[j].missing /\ ex[j].mode = "none" /\ queue[j].state = "done"
       /\ store[j].status = StatusFailed /\ store[j].err = "INTERNAL_ERROR"

\* C18: the handler of a job's task is invoked at most twice: the first delivery
\* and at most MaxRetry = 1 redelivery, whatever it returns.
AtMostOneRedelivery == \A j \in Jobs : queue[j].deliveries <= 1 + MaxRetry

ArchivedAfterTwoDeliveries ==
    \E j \in Jobs : queue[j].deliveries = 2 /\ queue[j].state = "archived" /\ ex[j].mode = "none"

\* C19: a job whose execute failed with an operation error (INVALID_INPUT,
\* LIMIT_EXCEEDED, UNSUPPORTED_PDF) has had its handler run exactly once.
OperationErrorNotRedelivered ==
    \A j \in Jobs : hist[j].execErr \in OperationErrors => queue[j].deliveries = 1

\* C19 amended: a task is put back for redelivery only when its handler returned
\* the error of a failed store operation (Upsert, MarkDone, MarkFailed); a handler
\* whose execute failed with an operation error and whose MarkFailed succeeded
\* returns nil and the task is completed.
RedeliveryOnlyAfterStoreFailure ==
    [][\A j \in Jobs :
          /\ (queue[j].state = "active" /\ queue'[j].state \in {"pending", "archived"}) =>
                (ex[j].ret = "err" /\ ex[j].storeErr)
          /\ (ex[j].mode = "task" /\ ex[j].pc = "return" /\ ex[j].runErr \in OperationErrors
                 /\ ~ex[j].storeErr /\ ex'[j].mode = "none") =>
                (queue'[j].state = "done" /\ store[j].err = ex[j].runErr)]_vars

OperationErrorCompletedOnce ==
    \E j \in Jobs :
       /\ hist[j].execErr = "UNSUPPORTED_PDF" /\ store[j].err = "UNSUPPORTED_PDF"
       /\ queue[j].state = "done" /\ queue[j].deliveries = 1

\* C20: with a Scheduler configured, shouldProcessAsync returns true if and only
\* if the files' total size exceeds AsyncThresholdBytes or their total page count
\* exceeds AsyncThresholdPages.
AsyncIffOverThreshold ==
    \A j \in Jobs :
       (hist[j].async # "unset" /\ opts.Scheduler /\ hist[j].manifest # NoManifest) =>
          (hist[j].async = "yes" <=>
             \/ SumSize(hist[j].manifest.files) > opts.AsyncThresholdBytes
             \/ SumPages(hist[j].manifest.files) > opts.AsyncThresholdPages)

\* C20 amended: shouldProcessAsync returns true if and only if a Scheduler is
\* configured, the manifest is not nil, and the total size exceeds a positive
\* AsyncThresholdBytes or the total page count exceeds a positive
\* AsyncThresholdPages; a threshold of zero or less switches its criterion off.
AsyncIffOverPositiveThreshold ==
    \A j \in Jobs :
       hist[j].async # "unset" =>
          (hist[j].async = "yes" <=>
             /\ opts.Scheduler
             /\ hist[j].manifest # NoManifest
             /\ \/ /\ opts.AsyncThresholdBytes > 0
                   /\ SumSize(hist[j].manifest.files) > opts.AsyncThresholdBytes
                \/ /\ opts.AsyncThresholdPages > 0
                   /\ SumPages(hist[j].manifest.files) > opts.AsyncThresholdPages)

AsyncBySizeAlone ==
    \E j \in Jobs :
       /\ hist[j].async = "yes"
       /\ opts.AsyncThresholdPages > 0
       /\ SumSize(hist[j].manifest.files) > opts.AsyncThresholdBytes
       /\ SumPages(hist[j].manifest.files) <= opts.AsyncThresholdPages

\* shouldProcessAsync over the bounded manifests and options, Scheduler nil
NeverAsyncWithoutScheduler ==
    \A m \in AsyncManifests, o \in AsyncOpts : ~o.Scheduler => ~shouldProcessAsync(m, o)

\* C21: with no Scheduler configured shouldProcessAsync is false for every
\* manifest and threshold setting, Schedule is never invoked and every prepared
\* job that is dispatched runs inline.
NoSchedulerRunsInline ==
    /\ NeverAsyncWithoutScheduler
    /\ \A j \in Jobs :
          ~opts.Scheduler =>
             /\ ~shouldProcessAsync(hist[j].manifest, opts)
             /\ hist[j].Schedule = 0 /\ hist[j].async # "yes" /\ queue[j] = NoTask
             /\ http[j] \notin {"202", "err_schedule"}
             /\ http[j] \notin {"idle", "prepared", "err_prepare"} => hist[j].RunJob = 1

LargeJobInlineWithoutScheduler ==
    \E j \in Jobs :
       /\ ~opts.Scheduler /\ http[j] = "200" /\ hist[j].RunJob = 1
       /\ SumSize(hist[j].manifest.files) > opts.AsyncThresholdBytes

Expr10 == <<"1", "-", "3", ",", "7", ",", "1", "0", "-">>
Expr12 == <<"1", "-", "3", ",", "7", ",", "1", "2", "-">>

\* C22: against a 12-page source "1-3,7,10-" parses to (1,3),(7,7),(10,12) and
\* "3-1", "1-3,2" and "1-3,7,12-" are each rejected with INVALID_INPUT.
RangeExamples ==
    (parse.pc = "parsed" /\ parse.pageCount = 12) =>
       /\ parse.expr = Expr10 =>
             (parse.result.ok /\ parse.result.ranges =
                <<[Start |-> 1, End |-> 3], [Start |-> 7, End |-> 7], [Start |-> 10, End |-> 12]>>)
       /\ parse.expr \in {<<"3", "-", "1">>, <<"1", "-", "3", ",", "2">>, Expr12} =>
             (~parse.result.ok /\ parse.result.code = "INVALID_INPUT")

\* C22 amended: against a 12-page source "1-3,7,10-" parses to (1,3),(7,7),(10,12);
\* "3-1", "1-3,2" and "1-3,10-,12" (a segment after the span that ends at the last
\* page) are rejected with INVALID_INPUT; "1-3,7,12-" is accepted as
\* (1,3),(7,7),(12,12).
RangeExamplesAsParsed ==
    (parse.pc = "parsed" /\ parse.pageCount = 12) =>
       /\ parse.expr = Expr10 =>
             (parse.result.ok /\ parse.result.ranges =
                <<[Start |-> 1, End |-> 3], [Start |-> 7, End |-> 7], [Start |-> 10, End |-> 12]>>)
       /\ parse.expr \in {<<"3", "-", "1">>, <<"1", "-", "3", ",", "2">>,
                          <<"1", "-", "3", ",", "1", "0", "-", ",", "1", "2">>} =>
             (~parse.result.ok /\ parse.result.code = "INVALID_INPUT")
       /\ parse.expr = Expr12 =>
             (parse.result.ok /\ parse.result.ranges =
                <<[Start |-> 1, End |-> 3], [Start |-> 7, End |-> 7], [Start |-> 12, End |-> 12]>>)

ExampleParsed == parse.pc = "parsed" /\ parse.expr = Expr12 /\ parse.pageCount = 12 /\ parse.result.ok

\* the trimmed segments of an expression
TrimmedSegments(expr) == [i \in 1..Len(Split(expr, ",")) |-> TrimSpace(Split(expr, ",")[i])]

\* the bounds written in a segment: "a-b" has two, "a-" and "a" have one
BoundsOf(seg) ==
    IF Contains(seg, "-")
    THEN LET a == TrimSpace(SubSeq(seg, 1, IndexOf(seg, "-") - 1))
             b == TrimSpace(SubSeq(seg, IndexOf(seg, "-") + 1, Len(seg)))
         IN IF b = <<>> THEN {a} ELSE {a, b}
    ELSE {seg}

\* C23: a list parsePageRanges accepts is non-empty, has one span per segment,
\* every span within 1 <= Start <= End <= n and each span starting after the end
\* of the one before; an expression with an empty segment, a non-integer or
\* out-of-range bound, or a reused or out-of-order page is rejected, and every
\* rejection is INVALID_INPUT.
AcceptedRangesAscendInBounds ==
    parse.pc = "parsed" =>
       LET r == parse.result.ranges
           segs == TrimmedSegments(parse.expr)
       IN IF parse.result.ok
          THEN /\ Len(r) >= 1 /\ Len(r) = Len(segs)
               /\ \A i \in 1..Len(r) :
                     /\ 1 <= r[i].Start /\ r[i].Start <= r[i].End /\ r[i].End <= parse.pageCount
                     /\ i > 1 => r[i - 1].End < r[i].Start
               /\ \A i \in 1..Len(segs) :
                     /\ segs[i] # <<>>
                     /\ \A b \in BoundsOf(segs[i]) :
                           Atoi(b).ok /\ 1 <= Atoi(b).val /\ Atoi(b).val <= parse.pageCount
          ELSE parse.result.code = "INVALID_INPUT" /\ r = <<>>

TwoSpansAccepted ==
    /\ parse.pc = "parsed" /\ parse.result.ok /\ Len(parse.result.ranges) = 2
    /\ parse.result.ranges[2].End = parse.pageCount

\* order is a permutation of 0..n-1
IsPermutation(order, n) == Len(order) = n /\ {order[i] : i \in 1..Len(order)} = 0..(n - 1)

\* C24: PrepareMergeJob with N files and an order that is not a permutation of
\* 0..N-1 returns INVALID_INPUT, with no workspace created and no file staged.
BadOrderRejected ==
    \A j \in Jobs :
       (merge.pc = "returned" /\ ~IsPermutation(merge.order, merge.nFiles)) =>
          (merge.err = "INVALID_INPUT" /\ ~merge.created /\ ws[j] = NoWorkspace)

\* C24 amended: PrepareMergeJob with 1 <= N <= maxUploadFiles files and a
\* non-empty order that is not a permutation of 0..N-1 returns INVALID_INPUT, with
\* no workspace created; an empty order means no order was given and passes the
\* validation; more than maxUploadFiles files are rejected with LIMIT_EXCEEDED
\* whatever the order, and no files with INVALID_INPUT.
NonEmptyBadOrderRejected ==
    \A j \in Jobs :
       merge.pc = "returned" =>
          /\ (merge.nFiles >= 1 /\ merge.nFiles <= maxUploadFiles /\ merge.order # <<>>
                 /\ ~IsPermutation(merge.order, merge.nFiles)) =>
                (merge.err = "INVALID_INPUT" /\ ~merge.created /\ ws[j] = NoWorkspace)
          /\ (merge.nFiles >= 1 /\ merge.nFiles <= maxUploadFiles
                 /\ (merge.order = <<>> \/ IsPermutation(merge.order, merge.nFiles))) =>
                merge.created
          /\ merge.nFiles > maxUploadFiles =>
                (merge.err = "LIMIT_EXCEEDED" /\ ~merge.created /\ ws[j] = NoWorkspace)
          /\ merge.nFiles = 0 =>
                (merge.err = "INVALID_INPUT" /\ ~merge.created /\ ws[j] = NoWorkspace)

DuplicateOrderRejected ==
    /\ merge.pc = "returned" /\ merge.nFiles = 3 /\ merge.order = <<0, 1, 1>>
    /\ merge.err = "INVALID_INPUT" /\ ~merge.created

\* C25: after an Upsert the stored record is the given one in every field but
\* the timestamps: createdAt is the given one, or the time of the call when it was
\* absent; updatedAt is the time of the call; expiresAt is the given one, or
\* createdAt + TTL when it was not set; the key lives for the TTL from the call
\* and is gone once the TTL has passed without another write.
UpsertReplacesAndStamps ==
    kv.writes > 0 =>
       IF kv.now < kv.lastAt + TTLTicks
       THEN /\ kv.rec.status = kv.lastIn.status /\ kv.rec.percent = kv.lastIn.percent
            /\ kv.rec.createdAt = (IF kv.lastIn.createdAt = 0 THEN kv.lastAt ELSE kv.lastIn.createdAt)
            /\ kv.rec.updatedAt = kv.lastAt
            /\ kv.rec.expiresAt =
                  (IF kv.lastIn.expiresAt = 0 THEN kv.rec.createdAt + TTLTicks ELSE kv.lastIn.expiresAt)
            /\ kv.deadline = kv.lastAt + TTLTicks
       ELSE kv.rec = NoTimedRecord

SecondUpsertKeepsCreatedAt ==
    /\ kv.writes = 2 /\ kv.lastAt = 2 /\ kv.now = 2
    /\ kv.lastIn.createdAt = 1 /\ kv.rec.createdAt = 1 /\ kv.rec.updatedAt = 2
    /\ kv.lastIn.expiresAt = 0 /\ kv.rec.expiresAt = 1 + TTLTicks

\* C26: manifest.json of a job is at every point either absent or complete, also
\* after a crash at any step of prepare, and loadManifest never fails on a
\* manifest it cannot parse.
ManifestAbsentOrComplete ==
    \A j \in Jobs :
       /\ prep.pc \in {"done", "failed", "crashed"} => ws[j].manifest # PartialManifest
       /\ prep.run # "parse_error"
       /\ prep.open # "parse_error"

\* C27: in every reachable state the in/ directory of a job exists exactly when
\* its out/ directory exists, also after createWorkspace failed at any step.
InDirIffOutDir ==
    \A j \in Jobs : ws[j].inDir <=> ws[j].outDir

\* C28: RunJob and OpenResultFile fail with the missing error (fs.ErrNotExist, 404
\* JOB_RESULT_NOT_FOUND on download) for a jobID whose workspace does not exist, and
\* every failure for a jobID whose workspace exists is a different, non-missing error.
OnlyAbsentWorkspaceIsMissing ==
    /\ prep.run # "none" =>
          IF ~prep.runSeen.dir THEN prep.run = "ErrNotExist"
          ELSE prep.run # "ErrNotExist"
    /\ prep.open # "none" =>
          IF ~prep.openSeen.dir THEN prep.open = "ErrNotExist" /\ prep.status = 404
          ELSE prep.open # "ErrNotExist" /\ prep.status # 404

\* C28 as the code has it: the error is the missing one exactly when manifest.json
\* is absent (or, for OpenResultFile, the manifest is complete and the output file
\* is absent); a manifest that cannot be parsed gives a different error, 500 on
\* download; 404 goes with the missing error only.
MissingIffManifestOrOutputAbsent ==
    /\ prep.run # "none" =>
          /\ prep.run = "ErrNotExist" <=>
                (~prep.runSeen.dir \/ prep.runSeen.manifest = NoManifest)
          /\ prep.run = "parse_error" <=> prep.runSeen.manifest = PartialManifest
    /\ prep.open # "none" =>
          /\ prep.open = "ErrNotExist" <=>
                \/ ~prep.openSeen.dir
                \/ prep.openSeen.manifest = NoManifest
                \/ /\ prep.openSeen.manifest # PartialManifest
                   /\ prep.openSeen.output = "none"
          /\ prep.open = "parse_error" <=> prep.openSeen.manifest = PartialManifest
          /\ prep.status = 404 <=> prep.open = "ErrNotExist"
          /\ prep.status = 500 <=> prep.open = "parse_error"
          /\ prep.status = 200 <=> prep.open = "nil"

UnparsableManifestIsNotMissing ==
    /\ prep.pc = "crashed"
    /\ prep.open = "parse_error"
    /\ prep.status = 500
    /\ prep.run = "parse_error"

SplitPartsFollowSpans ==
    (parse.pc = "executed" /\ parse.split.err = "nil") =>
       LET r == parse.result.ranges
           parts == parse.split.parts
       IN /\ parse.result.ok
          /\ parse.split.kind = "zip"
          /\ Len(parts) = Len(r)
          /\ \A i \in 1..Len(r) :
                /\ parts[i].Filename = i
                /\ parts[i].FromPage = r[i].Start
                /\ parts[i].ToPage = r[i].End
                /\ parts[i].Pages = r[i].End - r[i].Start + 1
                /\ parts[i].Pages >= 1
          /\ (parse.expr = Expr10 /\ parse.pageCount = 12) =>
                /\ Len(parts) = 3
                /\ <<parts[1].Pages, parts[2].Pages, parts[3].Pages>> = <<3, 1, 3>>
                /\ <<parts[1].FromPage, parts[2].FromPage, parts[3].FromPage>> = <<1, 7, 10>>
                /\ <<parts[1].ToPage, parts[2].ToPage, parts[3].ToPage>> = <<3, 7, 12>>

ExampleSplitExecuted ==
    /\ parse.pc = "executed" /\ parse.split.err = "nil"
    /\ parse.expr = Expr10 /\ parse.pageCount = 12
    /\ Len(parse.split.parts) = 3

\* C31: a merge job that executes without error yields meta.totalPages equal to the
\* sum of the staged inputs' page counts and meta.sources listing every input exactly
\* once: in upload order when no order is given, and sources[i] = input[order[i]]
\* when an order is given; two 5-page inputs without an order give totalPages = 10.
MergeMetaFollowsOrder ==
    (merge.pc = "executed" /\ merge.execErr = "nil") =>
       LET files == merge.files
           src == merge.meta.Sources
           metaOf(f) == [Name |-> f.originalName, Size |-> f.size, Pages |-> f.pages]
       IN /\ merge.kind = "pdf"
          /\ merge.meta.TotalPages = SumPages(files)
          /\ Len(src) = Len(files)
          /\ \A k \in 1..Len(files) :
                Cardinality({i \in 1..Len(src) : src[i].Name = files[k].originalName}) = 1
          /\ \A i \in 1..Len(src) :
                src[i] = IF merge.order = <<>> THEN metaOf(files[i])
                         ELSE metaOf(files[merge.order[i] + 1])
          /\ (Len(files) = 2 /\ merge.order = <<>> /\ \A k \in 1..2 : files[k].pages = 5) =>
                (merge.meta.TotalPages = 10 /\ src[1].Name = 1 /\ src[2].Name = 2)

ReorderedMergeExecuted ==
    /\ merge.pc = "executed" /\ merge.execErr = "nil"
    /\ merge.order = <<1, 0>>
    /\ merge.files[1].pages = 1 /\ merge.files[2].pages = 5
    /\ merge.meta.TotalPages = 6
    /\ merge.meta.Sources[1].Pages = 5

\* C32: per client IP at most 5 failed login attempts have their credentials checked
\* within any 15-minute window, under any interleaving of concurrent requests, and
\* once the 5th failure is recorded no attempt has its credentials checked until
\* the lock has run out.
AtMostFiveFailuresPerWindow ==
    /\ \A i \in 1..Len(auth.failedAt) :
          Cardinality({k \in i..Len(auth.failedAt) :
                          auth.failedAt[k] < auth.failedAt[i] + loginWindow}) <= maxLoginAttempts
    /\ ~auth.verifiedLocked

\* the reports of one execute call that ran to its end: one process report per work
\* unit (per span for split), then write, then completed
CheckpointReports(op, n) ==
    IF op = "split"
    THEN [i \in 1..n |-> [stage |-> "process", percent |-> 20 + ((60 * i) \div n)]]
           \o <<[stage |-> "write", percent |-> 90], [stage |-> "completed", percent |-> 100]>>
    ELSE <<[stage |-> "process", percent |-> 40], [stage |-> "write", percent |-> 80],
           [stage |-> "completed", percent |-> 100]>>

\* the reports follow the checkpoints, never decrease, stay within 0..100, and
\* completed is the last report, made only by an execute that returns success
ReportsFollow(j, expected) ==
    LET r == ex[j].reports
    IN /\ Len(r) <= Len(expected)
       /\ \A i \in 1..Len(r) :
             /\ r[i] = expected[i]
             /\ r[i].percent \in 0..100
             /\ i > 1 => r[i - 1].percent <= r[i].percent
             /\ r[i].stage = "completed" =>
                   (i = Len(r) /\ r[i].percent = 100 /\ ex[j].runErr = "")

\* C33: within one execute call progress is reported at the checkpoints load (at
\* entry), process (for split with n spans 20 + floor(60*i/n) for part i), write,
\* completed, in this order; the percents never decrease and stay within 0..100;
\* completed/100 is the last report and made only when execute returns success.
ReportsLoadProcessWriteCompleted ==
    \A j \in Jobs :
       ex[j].reports # <<>> =>
          /\ ex[j].reports[1].stage = "load"
          /\ ReportsFollow(j, <<ex[j].reports[1]>>
                                \o CheckpointReports(hist[j].manifest.op, hist[j].manifest.n))

\* C33 as the code has it: the executors report process, write, completed; the load
\* stage is not reported by any executor.
ReportsProcessWriteCompleted ==
    \A j \in Jobs :
       /\ ReportsFollow(j, CheckpointReports(hist[j].manifest.op, hist[j].manifest.n))
       /\ \A i \in 1..Len(ex[j].reports) : ex[j].reports[i].stage # "load"

SplitReportedToCompleted ==
    \E j \in Jobs :
       /\ hist[j].manifest.op = "split" /\ hist[j].manifest.n >= 2
       /\ Len(ex[j].reports) = hist[j].manifest.n + 2
       /\ ex[j].reports[1].percent < ex[j].reports[2].percent

\* C34: in every reachable store state every job record's progress.percent lies in
\* 0..100, whichever way it was written, Manager.UpdateProgress with an arbitrary
\* integer included.
PercentInRange ==
    \A j \in Jobs : store[j].percent \in 0..100

RecordConsistent ==
    \A j \in Jobs :
       /\ store[j].status = StatusSucceeded =>
             (store[j].percent = 100 /\ store[j].stage = "completed"
                /\ store[j].url # "" /\ store[j].err = "")
       /\ store[j].status = StatusFailed => (store[j].err # "" /\ store[j].url = "")
       /\ store[j].status \in {StatusQueued, StatusRunning} =>
             (store[j].url = "" /\ store[j].err = "")

DoneRecordStored ==
    \E j \in Jobs :
       /\ store[j].status = StatusSucceeded /\ store[j].url # ""
       /\ hist[j].Schedule >= 1 /\ execCount[j] >= 1

\* C37: Enqueue writes the queued record before it pushes the task: whenever
\* Enqueue has returned success or a worker starts on the task, and the record's
\* key has not expired, the store holds a record for the job, and the queued upsert
\* never overwrites a record a worker set to running or to a terminal state.
QueuedRecordBeforeTask ==
    /\ \A j \in Jobs : (sched.pc = "ok" /\ ~sched.expired) => store[j] # NoRecord
    /\ ~sched.startedBare
    /\ ~sched.overwrote

WorkerStartedOnQueuedRecord ==
    \E j \in Jobs :
       /\ sched.pc = "ok" /\ ~sched.expired
       /\ queue[j].state = "active" /\ queue[j].deliveries = 1
       /\ store[j].status = StatusRunning /\ store[j].percent = 40

\* C38: after Enqueue / Schedule returned an error the store holds no record for
\* the job, so no record outlives a job whose workspace the handler discarded.
NoRecordAfterScheduleError ==
    \A j \in Jobs : http[j] = "err_schedule" => store[j] = NoRecord


\* C39: a record that Get returns is never read later than the expiresAt it
\* carries, its expiresAt is its createdAt + TTL, and the key's time-to-live ends
\* at the record's expiresAt, after every Upsert, UpdateProgress, MarkDone and
\* MarkFailed.
KeyExpiryAgreesWithExpiresAt ==
    kv.rec.status # "absent" =>
       /\ kv.now <= kv.rec.expiresAt
       /\ kv.rec.expiresAt = kv.rec.createdAt + TTLTicks
       /\ kv.deadline = kv.rec.expiresAt

\* C40: the createdAt of a job's record is the one the queued upsert of Enqueue
\* set, whatever the worker wrote afterwards (running upsert, progress, MarkDone,
\* MarkFailed, redelivery), and updatedAt never decreases.
CreatedAtFixedAtEnqueue ==
    /\ kv.rec.status # "absent" => kv.rec.createdAt = kv.queuedAt
    /\ ~kv.updatedBack

====
